---- MODULE Spec2Model ----
(***************************************************************************)
(* State-machine model of CalRunrilla-Go: the device session of the HTTP   *)
(* server (internal/server), the background operations it launches and the *)
(* flashing state machine modern.FlashParameters.                          *)
(*                                                                         *)
(* Bar indices are 0-based as in the Go code; TLA+ sequences are 1-based,  *)
(* so p.BARS[i] is p[i + 1].                                                *)
(***************************************************************************)
EXTENDS Integers, Sequences, FiniteSets, Bags, TLC

(* ---- bounds of the model ---- *)
MaxBars == 2
MaxTasks == 2
MaxAvg == 1
MaxSnapshots == 2

(* ---- program constants ---- *)
HandshakeRounds == 6
WriteAttempts == 3
MaskSlots == 4

(* channel masks (BAR.LCS) the parameter sets are drawn from *)
Masks == {1, 3}

VARIABLES tasks, bus, dev, cal, started, store, ui

vars == <<tasks, bus, dev, cal, started, store, ui>>

(* the state of the device session and of its calibration accumulator; ui  *)
(* is the state of the terminal programs, which run without the server     *)
sessVars == <<dev, cal, started, store, ui>>

NoUi == "none"

TaskIds == 1..MaxTasks
BarIdx == 0..(MaxBars - 1)

(* ---- device behaviour on the bus ---- *)

(* outcome of one addressed send/await: the expected token arrived, some   *)
(* other (possibly empty) response arrived, or the call returned an error  *)
EnterResponses == {"Enter", "other", "err"}
WriteResponses == {"OK", "other", "err"}
RebootResponses == {"Rebooting", "other"}
ReadResponses == {"ok", "empty", "err"}

(* a command on a closed port returns its failure without reaching the bus *)
Resp(f, set, failure) == IF f.closed THEN {failure} ELSE set

(* ---- parameter sets ---- *)

(* number of the 4 payload slots the mask marks active *)
ActiveSlots(lcs) == Cardinality({ii \in 0..(MaskSlots - 1) : (lcs \div (2 ^ ii)) % 2 = 1})

(* a BAR of a parameter set: LC is len(BAR.LC), LCS the channel mask; the  *)
(* channel lists run from empty to one record per active channel           *)
BarRecords(lcs) == [LC : 0..ActiveSlots(lcs), LCS : {lcs}]

RECURSIVE BarLists(_, _)
BarLists(n, lcs) ==
    IF n = 0 THEN {<<>>}
    ELSE {Append(s, b) : s \in BarLists(n - 1, lcs), b \in BarRecords(lcs)}

(* p.BARS of every parameter set of up to MaxBars bars (<<>>: p == nil or  *)
(* no bars); the bars of one set share their channel mask                  *)
ParameterSets == UNION {BarLists(n, lcs) : n \in 0..MaxBars, lcs \in Masks}

(* ---- pure helpers of FlashParameters ---- *)

Ev(stage, bar) == [Stage |-> stage, BarIndex |-> bar]
Cmd(kind, bar) == [kind |-> kind, bar |-> bar]
NoCmd == Cmd("none", -1)

PreconditionErrorNoLC(bars, p) ==
    IF bars = 0 THEN "bars not connected"
    ELSE IF Len(p) = 0 THEN "no bars configured"
    ELSE "nil"

PreconditionError(bars, p) ==
    IF bars = 0 THEN "bars not connected"
    ELSE IF Len(p) = 0 THEN "no bars configured"
    ELSE IF p[1].LC = 0 THEN "no calibration factors present"
    ELSE "nil"

OpenToUpdateErrorAnyResponse(resp) ==
    IF resp = "err" THEN "io error" ELSE "nil"

OpenToUpdateError(resp) ==
    IF resp = "err" THEN "io error"
    ELSE IF resp # "Enter" THEN "no enter"
    ELSE "nil"

RecoveryBars(bars) == 0..(bars - 1)

AllBars(p) == [j \in 1..Len(p) |-> j - 1]

HandshakeContinueExtraRound(attempt, notReady) ==
    attempt <= HandshakeRounds + 1 /\ Len(notReady) > 0

HandshakeContinue(attempt, notReady) ==
    attempt <= HandshakeRounds /\ Len(notReady) > 0

StillPendingOnlyOnError(resp) == resp = "err"

StillPending(resp) == resp # "Enter"

BuildPayloadPanics(bar) == ActiveSlots(bar.LCS) > bar.LC

WriteOK(resp) == resp = "OK"

WriteRetryOneLess(attempt) == attempt <= WriteAttempts - 1

WriteRetry(attempt) == attempt <= WriteAttempts

RebootPanics(bars, i) == i >= bars

NextBarSkip(i) == i + 2

NextBar(i) == i + 1

(* ---- tasks ---- *)

IdleTask ==
    [kind |-> "none", gen |-> 0, pc |-> "idle", ctxDone |-> FALSE, closed |-> FALSE,
     observed |-> FALSE,
     bars |-> 0, p |-> <<>>, avg |-> 0, step |-> 0,
     w |-> 0, s |-> 0, count |-> 0, gotAny |-> FALSE, ignoreDone |-> 0, avgDone |-> 0,
     ignoreTarget |-> 0, notify |-> FALSE, nlcs |-> 0,
     mock |-> [v |-> 0, kind |-> "const", fail |-> "none"],
     cycle |-> 0, cur |-> <<>>, sums |-> <<>>, counts |-> <<>>, flat |-> <<>>,
     updates |-> <<>>, barReads |-> <<>>, ignored |-> 0, summed |-> 0,
     pNil |-> FALSE, steps |-> <<>>, nloads |-> 0, j |-> 0,
     ws |-> <<>>, computed |-> "none", stored |-> FALSE,
     i |-> 0, attempt |-> 0, notReady |-> <<>>, remaining |-> <<>>, k |-> 0,
     wattempt |-> 0, err1 |-> "nil",
     result |-> "none", errInfo |-> <<>>,
     events |-> <<>>, lastCmd |-> NoCmd, broadcastResps |-> <<>>,
     recoveryReboots |-> <<>>, acked |-> {}, probed |-> {},
     zeroAttempts |-> [b \in BarIdx |-> 0], facAttempts |-> [b \in BarIdx |-> 0],
     zeroDone |-> {}, facDone |-> {}, payloadReboots |-> {},
     resp |-> <<>>, respErr |-> "nil", vals |-> <<>>,
     counted |-> FALSE, probes |-> [b \in BarIdx |-> 0],
     calibs |-> 0, ad0 |-> <<>>,
     solve |-> "ok", factors |-> <<>>, recs |-> <<>>, recs0 |-> <<>>,
     lcs |-> 0, lc |-> <<>>, sb |-> <<>>, sb2 |-> <<>>, nan |-> <<>>]

(* the history of a call (events emitted, commands sent, responses seen)   *)
(* is recorded for the call under study only                               *)
Recorded(f) ==
    IF f.observed THEN f
    ELSE [f EXCEPT !.errInfo = <<>>, !.events = <<>>, !.lastCmd = NoCmd,
                   !.broadcastResps = <<>>, !.recoveryReboots = <<>>,
                   !.acked = {}, !.probed = {},
                   !.zeroAttempts = IdleTask.zeroAttempts,
                   !.facAttempts = IdleTask.facAttempts,
                   !.zeroDone = {}, !.facDone = {}, !.payloadReboots = {},
                   !.cycle = 0, !.cur = <<>>, !.sums = <<>>, !.counts = <<>>,
                   !.flat = <<>>, !.updates = <<>>, !.barReads = <<>>,
                   !.ignored = 0, !.summed = 0, !.ws = <<>>,
                   !.computed = "none", !.stored = FALSE]

Set(t, f) == tasks' = [tasks EXCEPT ![t] = Recorded(f)]

(* a command of task t goes out on the serial port; tasks are numbered in  *)
(* the order in which they were started (gen)                              *)
BusCommand(t) ==
    bus' = IF tasks[t].closed THEN bus
           ELSE [last |-> tasks[t].gen,
                 max |-> IF tasks[t].gen > bus.max THEN tasks[t].gen ELSE bus.max]

(* a panic in a goroutine ends the process *)
Crashed == \E t \in TaskIds : tasks[t].pc = "panicked"

At(t, pc) == ~Crashed /\ tasks[t].pc = pc

(* the goroutines of the start handlers broadcast on the stream of their   *)
(* operation; ws is what a goroutine has broadcast besides the progress of *)
(* the calls it makes (events, updates)                                    *)
Streams == {"cal", "test", "flash"}

Msg(type, error) == [Type |-> type, Error |-> error]

Broadcast(f, type, error) ==
    IF f.kind \in Streams THEN Append(f.ws, Msg(type, error)) ELSE f.ws

(* what a goroutine broadcasts when a call it made ends the operation: the *)
(* test loop ends on ctx.Done() with 'stopped', every error returned by a   *)
(* call (ctx.Err() included) goes out as 'error' with err.Error()           *)
Terminal(result) ==
    IF result = "stopped" THEN Msg("stopped", "nil") ELSE Msg("error", result)

(* a call of the goroutine returns and ends it: its locals go out of scope *)
Return(f, result, info) ==
    [f EXCEPT !.pc = "returned", !.result = result, !.errInfo = info,
              !.ws = IF result = "nil" THEN @
                     ELSE Broadcast(f, Terminal(result).Type, Terminal(result).Error),
              !.i = 0, !.attempt = 0, !.notReady = <<>>, !.remaining = <<>>,
              !.k = 0, !.wattempt = 0, !.err1 = "nil",
              !.w = 0, !.s = 0, !.count = 0, !.gotAny = FALSE,
              !.ignoreDone = 0, !.avgDone = 0,
              !.cur = <<>>, !.sums = <<>>, !.counts = <<>>, !.j = 0]

(* the recovery block is left (err and i go out of scope), notReady is built *)
EnterHandshake(f) ==
    [f EXCEPT !.pc = "round", !.notReady = AllBars(f.p), !.attempt = 1,
              !.i = 0, !.err1 = "nil"]

(* FlashParameters is entered: argument checks, then the first progress event *)
FlashCall(t) ==
    LET f == tasks[t] IN
    /\ At(t, "call")
    /\ IF PreconditionError(f.bars, f.p) # "nil"
         THEN Set(t, Return(f, PreconditionError(f.bars, f.p), <<>>))
         ELSE Set(t, [f EXCEPT !.pc = "open",
                               !.events = Append(@, Ev("enter_update", -1))])
    /\ UNCHANGED <<bus, sessVars>>

(* first update-mode broadcast *)
FlashOpenToUpdate(t) ==
    LET f == tasks[t] IN
    /\ At(t, "open")
    /\ \E resp \in Resp(f, EnterResponses, "err") :
         LET g == [f EXCEPT !.lastCmd = Cmd("broadcast", -1),
                            !.broadcastResps = Append(@, resp)] IN
         IF OpenToUpdateError(resp) = "nil"
           THEN Set(t, EnterHandshake(g))
           ELSE Set(t, [g EXCEPT !.pc = "recover", !.i = 0,
                                 !.err1 = OpenToUpdateError(resp)])
    /\ BusCommand(t)
    /\ UNCHANGED sessVars

(* one iteration of the recovery loop: reboot bar i *)
FlashRecoverReboot(t) ==
    LET f == tasks[t] IN
    /\ At(t, "recover")
    /\ f.i \in RecoveryBars(f.bars)
    /\ \E resp \in Resp(f, RebootResponses, "other") :
         Set(t, [f EXCEPT !.lastCmd = Cmd("reboot", f.i),
                          !.recoveryReboots = Append(@, f.i),
                          !.i = @ + 1,
                          !.pc = IF (f.i + 1) \in RecoveryBars(f.bars)
                                   THEN "recover" ELSE "retry"])
    /\ BusCommand(t)
    /\ UNCHANGED sessVars

(* the single retry of the broadcast *)
FlashRetryOpen(t) ==
    LET f == tasks[t] IN
    /\ At(t, "retry")
    /\ \E resp \in Resp(f, EnterResponses, "err") :
         LET g == [f EXCEPT !.lastCmd = Cmd("broadcast", -1),
                            !.broadcastResps = Append(@, resp)] IN
         IF OpenToUpdateError(resp) = "nil"
           THEN Set(t, EnterHandshake(g))
           ELSE Set(t, Return(g, "cannot enter update mode",
                              <<f.err1, OpenToUpdateError(resp)>>))
    /\ BusCommand(t)
    /\ UNCHANGED sessVars

(* top of the handshake loop: loop condition, then the cancellation check *)
FlashRoundTop(t) ==
    LET f == tasks[t] IN
    /\ At(t, "round")
    /\ IF HandshakeContinue(f.attempt, f.notReady)
         THEN IF f.ctxDone
                THEN Set(t, Return(f, "canceled", <<>>))
                ELSE Set(t, [f EXCEPT !.pc = "probe", !.remaining = <<>>, !.k = 1])
         ELSE IF Len(f.notReady) > 0
                THEN Set(t, Return(f, "not all bars entered update mode", f.notReady))
                ELSE Set(t, [f EXCEPT !.pc = "prime", !.attempt = 0, !.k = 0,
                                      !.probes = IdleTask.probes])
    /\ UNCHANGED <<bus, sessVars>>

(* the addressed challenge to the k-th bar of notReady *)
FlashProbe(t) ==
    LET f == tasks[t]
        idx == f.notReady[f.k] IN
    /\ At(t, "probe")
    /\ \E resp \in Resp(f, EnterResponses, "err") :
         LET rem == IF StillPending(resp) THEN Append(f.remaining, idx) ELSE f.remaining
             g == [f EXCEPT !.lastCmd = Cmd("probe", idx),
                            !.probed = @ \cup {idx},
                            !.probes[idx] = IF f.counted THEN @ + 1 ELSE @,
                            !.acked = IF resp = "Enter" THEN @ \cup {idx} ELSE @,
                            !.remaining = rem] IN
         IF f.k < Len(f.notReady)
           THEN Set(t, [g EXCEPT !.k = @ + 1])
           ELSE Set(t, [g EXCEPT !.notReady = rem, !.remaining = <<>>, !.k = 0,
                                 !.attempt = @ + 1, !.pc = "round"])
    /\ BusCommand(t)
    /\ UNCHANGED sessVars

(* prime the bootloaders: one carriage return, drain the answer *)
FlashPrime(t) ==
    LET f == tasks[t] IN
    /\ At(t, "prime")
    /\ Set(t, [f EXCEPT !.lastCmd = Cmd("prime", -1), !.i = 0, !.pc = "bar"])
    /\ BusCommand(t)
    /\ UNCHANGED sessVars

(* top of the per-bar loop: loop condition, cancellation check, zero payload *)
FlashBarTop(t) ==
    LET f == tasks[t] IN
    /\ At(t, "bar")
    /\ IF f.i >= Len(f.p)
         THEN Set(t, [Return(f, "nil", <<>>) EXCEPT !.events = Append(@, Ev("done", -1)),
                                                    !.ws = Broadcast(f, "done", "nil")])
         ELSE IF f.ctxDone
           THEN Set(t, Return(f, "canceled", <<>>))
           ELSE LET g == [f EXCEPT !.events = Append(@, Ev("zeros", f.i))] IN
                IF BuildPayloadPanics(f.p[f.i + 1])
                  THEN Set(t, [g EXCEPT !.pc = "panicked", !.result = "panic"])
                  ELSE Set(t, [g EXCEPT !.pc = "zero", !.wattempt = 1])
    /\ UNCHANGED <<bus, sessVars>>

(* one attempt of the zero payload write of bar i *)
FlashZeroWrite(t) ==
    LET f == tasks[t] IN
    /\ At(t, "zero")
    /\ \E resp \in Resp(f, WriteResponses, "err") :
         LET g == [f EXCEPT !.lastCmd = Cmd("zeros", f.i),
                            !.zeroAttempts[f.i] = @ + 1] IN
         IF WriteOK(resp)
           THEN Set(t, [g EXCEPT !.zeroDone = @ \cup {f.i},
                                 !.events = Append(@, Ev("factors", f.i)),
                                 !.pc = "fac", !.wattempt = 1])
           ELSE IF WriteRetry(f.wattempt + 1)
             THEN Set(t, [g EXCEPT !.wattempt = @ + 1])
             ELSE Set(t, Return(g, "cannot flash zeros", <<f.i + 1>>))
    /\ BusCommand(t)
    /\ UNCHANGED sessVars

(* one attempt of the factor payload write of bar i *)
FlashFacWrite(t) ==
    LET f == tasks[t] IN
    /\ At(t, "fac")
    /\ \E resp \in Resp(f, WriteResponses, "err") :
         LET g == [f EXCEPT !.lastCmd = Cmd("factors", f.i),
                            !.facAttempts[f.i] = @ + 1] IN
         IF WriteOK(resp)
           THEN Set(t, [g EXCEPT !.facDone = @ \cup {f.i},
                                 !.events = Append(@, Ev("reboot", f.i)),
                                 !.pc = "reboot", !.wattempt = 0])
           ELSE IF WriteRetry(f.wattempt + 1)
             THEN Set(t, [g EXCEPT !.wattempt = @ + 1])
             ELSE Set(t, Return(g, "cannot flash factors", <<f.i + 1>>))
    /\ BusCommand(t)
    /\ UNCHANGED sessVars

(* reboot of bar i after its payloads, then on to the next bar *)
FlashReboot(t) ==
    LET f == tasks[t] IN
    /\ At(t, "reboot")
    /\ IF RebootPanics(f.bars, f.i)
         THEN /\ Set(t, [f EXCEPT !.pc = "panicked", !.result = "panic"])
              /\ UNCHANGED bus
         ELSE /\ \E resp \in Resp(f, RebootResponses, "other") :
                   Set(t, [f EXCEPT !.lastCmd = Cmd("reboot", f.i),
                                    !.payloadReboots = @ \cup {f.i},
                                    !.i = NextBar(@), !.pc = "bar"])
              /\ BusCommand(t)
    /\ UNCHANGED sessVars

FlashStep(t) ==
    \/ FlashCall(t)
    \/ FlashOpenToUpdate(t)
    \/ FlashRecoverReboot(t)
    \/ FlashRetryOpen(t)
    \/ FlashRoundTop(t)
    \/ FlashProbe(t)
    \/ FlashPrime(t)
    \/ FlashBarTop(t)
    \/ FlashZeroWrite(t)
    \/ FlashFacWrite(t)
    \/ FlashReboot(t)

(* the cancel function of the task's context is called *)
CtxCancel(t) ==
    /\ ~Crashed
    /\ tasks[t].kind # "none"
    /\ tasks[t].pc \notin {"returned", "panicked"}
    /\ ~tasks[t].ctxDone
    /\ Set(t, [tasks[t] EXCEPT !.ctxDone = TRUE])
    /\ UNCHANGED <<bus, sessVars>>

(* ---- the device session ---- *)

(* active channels per bar of the connected configuration (bars.NLCs) *)
SessionNLCs == 1

(* length of the calibration plan: the zero step and nloads weight steps *)
PlanLen(nbars, nlcs) == 1 + 3 * (nbars - 1) * nlcs

StepIdx == 0..(PlanLen(MaxBars, SessionNLCs) - 1)

(* bars = 0: no handle (else len(bars.Bars)); lcs = <<>>: no parameters    *)
(* (else the channel masks of params.BARS, avg is params.AVG); configID =   *)
(* 0: ""; opCancel = 0: nil, else the number of the start request that      *)
(* created the context. open counts the port handles opened for the        *)
(* session and not closed, peak is the highest value it has had, probed     *)
(* tells that GetVersion(0) succeeded on the stored handle, tried is the    *)
(* bar list of the connect request that opened a port last                  *)
NoSession ==
    [bars |-> 0, avg |-> 0, opCancel |-> 0, opKind |-> "",
     lcs |-> <<>>, nlcs |-> 0, configID |-> 0,
     open |-> 0, peak |-> 0, probed |-> FALSE, tried |-> <<>>]

(* countActiveLCs: the set bits of the mask byte *)
countActiveLCs(lcs) == Cardinality({ii \in 0..7 : (lcs \div (2 ^ ii)) % 2 = 1})

(* openBars closes the port it opened and fails: no active channel on the  *)
(* first bar, or a bar with another number of active channels              *)
MasksError(lcs) ==
    \/ countActiveLCs(lcs[1]) <= 0
    \/ \E b \in 1..Len(lcs) : countActiveLCs(lcs[b]) # countActiveLCs(lcs[1])

VersionResponses == {"version", "short", "none", "err"}

VersionErrorOnlyOnErr(resp) == resp = "err"

(* GetVersion fails: a read error, no "Version " in the response, or fewer *)
(* than three dotted parts after it                                        *)
VersionError(resp) == resp # "version"

(* the session of a stored configuration cfg, connected *)
Session(cfg) ==
    [NoSession EXCEPT !.bars = Len(cfg.lcs), !.avg = cfg.avg, !.lcs = cfg.lcs,
                      !.nlcs = countActiveLCs(cfg.lcs[1]), !.configID = cfg.id,
                      !.open = 1, !.peak = 1, !.probed = TRUE, !.tried = cfg.lcs]

SessionKeepsHandleOpen(d) == [NoSession EXCEPT !.open = d.open, !.peak = d.peak]

(* cancelLocked and disconnectLocked on the session: the handle is closed  *)
(* when there is one, and handle, parameters and config id are cleared     *)
SessionDisconnected(d) ==
    [NoSession EXCEPT !.open = IF d.bars # 0 THEN d.open - 1 ELSE d.open,
                      !.peak = d.peak]

(* calAdv is <<>> when nil, else <<rows>>, rows the weight rows filled in;  *)
(* mu is the task holding calMu (0: free); reported and computedOn record   *)
(* how often each step was accumulated since the last reset, and those      *)
(* counts at the moment the computation ran (<<>>: it has not run);         *)
(* finished is the number of step goroutines whose sampling has ended       *)
(* without error since the last reset                                       *)
NoCal == [mu |-> 0, calAd0 |-> FALSE, calAdv |-> <<>>, calReceived |-> 0,
          calSteps |-> 0, reported |-> [x \in StepIdx |-> 0], computedOn |-> <<>>,
          finished |-> 0]

(* ---- one call of FlashParameters on arbitrary arguments ---- *)

InitFlash ==
    /\ \E bars \in 0..MaxBars, p \in ParameterSets :
         tasks = [t \in TaskIds |->
                    IF t = 1
                      THEN [IdleTask EXCEPT !.kind = "flash", !.gen = 1, !.pc = "call",
                                            !.observed = TRUE,
                                            !.bars = bars, !.p = p]
                      ELSE IdleTask]
    /\ bus = [last |-> 0, max |-> 0]
    /\ dev = NoSession
    /\ cal = NoCal
    /\ started = 1
    /\ store = {}
    /\ ui = NoUi

NextFlash ==
    \/ FlashCall(1)
    \/ FlashOpenToUpdate(1)
    \/ FlashRecoverReboot(1)
    \/ FlashRetryOpen(1)
    \/ FlashRoundTop(1)
    \/ FlashProbe(1)
    \/ FlashPrime(1)
    \/ FlashBarTop(1)
    \/ FlashZeroWrite(1)
    \/ FlashFacWrite(1)
    \/ FlashReboot(1)
    \/ CtxCancel(1)

SpecFlash == InitFlash /\ [][NextFlash]_vars

(* ---- one call of FlashParameters that is not starved; probes counts,   ---- *)
(* ---- while the handshake lasts and when it fails, its probes per bar   ---- *)

InitFlashFair ==
    /\ \E n \in 0..MaxBars, lcs \in Masks :
         tasks = [t \in TaskIds |->
                    IF t = 1
                      THEN [IdleTask EXCEPT !.kind = "flash", !.gen = 1, !.pc = "call",
                                            !.observed = TRUE, !.counted = TRUE,
                                            !.bars = n,
                                            !.p = [j \in 1..n |->
                                                     [LC |-> ActiveSlots(lcs), LCS |-> lcs]]]
                      ELSE IdleTask]
    /\ bus = [last |-> 0, max |-> 0]
    /\ dev = NoSession
    /\ cal = NoCal
    /\ started = 1
    /\ store = {}
    /\ ui = NoUi

(* a goroutine that can take a step takes it: the calls of FlashParameters *)
(* return within their timeouts and its sleeps end                         *)
SpecFlashFair == InitFlashFair /\ [][FlashStep(1)]_vars /\ WF_vars(FlashStep(1))

(* ======================================================================= *)
(* The HTTP handlers of the device session and the tasks they launch       *)
(* ======================================================================= *)

(* p.IGNORE of an uploaded configuration that leaves IGNORE out *)
Ignore(avg) == avg

Warmup(ignore) == IF ignore > 0 THEN ignore ELSE 5

(* the parameters a finished calibration hands to the flash *)
CalibratedParameters(nbars) ==
    [j \in 1..nbars |-> [LC |-> SessionNLCs, LCS |-> (2 ^ SessionNLCs) - 1]]

ComputeOutcomes == {"nil", "SVD failed"}

FreeSlots == {t \in TaskIds : tasks[t].kind = "none"}

(* a goroutine (flash, test, calibration step) has started and not ended *)
Running(t) == tasks[t].kind # "none" /\ tasks[t].pc # "handler"

(* cancelLocked: the stored cancel function is called; nobody waits for   *)
(* the task that owns the context                                          *)
cancelLocked(ts, d) ==
    [t \in TaskIds |->
       IF d.opCancel # 0 /\ ts[t].kind # "none" /\ ts[t].gen = d.opCancel
         THEN [ts[t] EXCEPT !.ctxDone = TRUE]
         ELSE ts[t]]

(* disconnectLocked: the port is closed under every task that uses it *)
disconnectLocked(ts) ==
    [t \in TaskIds |->
       IF ts[t].kind # "none" THEN [ts[t] EXCEPT !.closed = TRUE] ELSE ts[t]]

NewTask(kind, pc) ==
    [IdleTask EXCEPT !.kind = kind, !.gen = started + 1, !.pc = pc,
                     !.bars = dev.bars, !.avg = dev.avg,
                     !.ignoreTarget = Ignore(dev.avg), !.notify = TRUE,
                     !.nlcs = dev.nlcs]

(* locked part of a start handler: cancel the previous operation, create   *)
(* the new context, record it as the active operation                      *)
StartLocked(task, opKind) ==
    LET slot == CHOOSE t \in FreeSlots : \A u \in FreeSlots : t <= u IN
    /\ tasks' = [cancelLocked(tasks, dev) EXCEPT ![slot] = task]
    /\ dev' = [dev EXCEPT !.opCancel = started + 1, !.opKind = opKind]
    /\ started' = started + 1

(* found: the config id is in the store; port: the port of the config can *)
(* be opened ("open"), cannot ("busy"), or is not given and not detected   *)
(* ("none"); resp: what bar 0 answers to the version probe                 *)
HandleConnect(cfg, found, port, resp) ==
    LET d0 == SessionDisconnected(dev)
        opened == [d0 EXCEPT !.open = @ + 1,
                             !.peak = IF d0.open + 1 > @ THEN d0.open + 1 ELSE @,
                             !.tried = cfg.lcs]
        closed == [opened EXCEPT !.open = @ - 1]
        probe == port = "open" /\ ~MasksError(cfg.lcs) IN
    /\ ~Crashed
    /\ IF ~found
         THEN UNCHANGED <<tasks, dev, bus>>
         ELSE /\ tasks' = disconnectLocked(cancelLocked(tasks, dev))
              /\ dev' = IF port # "open" THEN d0
                        ELSE IF MasksError(cfg.lcs) \/ VersionError(resp) THEN closed
                        ELSE [opened EXCEPT !.bars = Len(cfg.lcs), !.avg = cfg.avg,
                                            !.lcs = cfg.lcs,
                                            !.nlcs = countActiveLCs(cfg.lcs[1]),
                                            !.configID = cfg.id,
                                            !.probed = (resp = "version")]
              /\ bus' = IF probe THEN [bus EXCEPT !.last = 0] ELSE bus
    /\ UNCHANGED <<cal, started, store, ui>>

HandleDisconnect ==
    /\ ~Crashed
    /\ tasks' = disconnectLocked(cancelLocked(tasks, dev))
    /\ dev' = SessionDisconnected(dev)
    /\ UNCHANGED <<bus, cal, started, store, ui>>

HandleStopOp ==
    /\ ~Crashed
    /\ tasks' = cancelLocked(tasks, dev)
    /\ dev' = [dev EXCEPT !.opCancel = 0, !.opKind = ""]
    /\ UNCHANGED <<bus, cal, started, store, ui>>

HandleTestStart(limit) ==
    /\ ~Crashed
    /\ started < limit
    /\ FreeSlots # {}
    /\ IF dev.bars = 0
         THEN UNCHANGED <<tasks, dev, started>>
         ELSE StartLocked(NewTask("test", "ensure"), "test")
    /\ UNCHANGED <<bus, cal, store, ui>>

HandleFlashStart(found, p, limit) ==
    /\ ~Crashed
    /\ started < limit
    /\ FreeSlots # {}
    /\ IF ~found \/ dev.bars = 0
         THEN UNCHANGED <<tasks, dev, started>>
         ELSE StartLocked([NewTask("flash", "call") EXCEPT !.p = p], "flash")
    /\ UNCHANGED <<bus, cal, store, ui>>

(* handleCalStartStep up to the release of the session lock *)
HandleCalStartStep(stepIndex, limit) ==
    /\ ~Crashed
    /\ started < limit
    /\ FreeSlots # {}
    /\ IF dev.bars = 0
         THEN UNCHANGED <<tasks, dev, started>>
         ELSE StartLocked([NewTask("cal", "handler") EXCEPT !.step = stepIndex],
                          "calibration")
    /\ UNCHANGED <<bus, cal, store, ui>>

(* handleCalStartStep after the session lock: plan, validation of the step *)
(* index, reset of the accumulator at step 0 (waits for calMu), goroutine  *)
HandleCalStartStepLaunch(t) ==
    LET f == tasks[t]
        steps == PlanLen(f.bars, f.nlcs) IN
    /\ At(t, "handler")
    /\ IF f.step < 0 \/ f.step >= steps
         THEN Set(t, IdleTask) /\ UNCHANGED cal
         ELSE /\ Set(t, [f EXCEPT !.pc = "sample"])
              /\ IF f.step = 0
                   THEN /\ cal.mu = 0
                        /\ cal' = [NoCal EXCEPT !.calSteps = steps]
                   ELSE UNCHANGED cal
    /\ UNCHANGED <<bus, dev, started, store, ui>>

(* ---- SampleADCs ---- *)

(* a deterministic bus for the call under study: the value channel lc of   *)
(* bar i returns in read cycle c, and the reads that fail                   *)
MaxRaw == 1
MockKinds == {"const", "varied"}
MockFails == {"none", "err", "short", "long", "empty", "garbled"}
Mocks == [v : 0..MaxRaw, kind : MockKinds, fail : MockFails]

MockValue(m, c, i, lc) ==
    IF m.kind = "const" THEN m.v ELSE (m.v + c + 2 * i + lc) % (MaxRaw + 2)

(* the reads of bar i that a failing mock fails: every other one *)
Hit(m, c, i) == m.fail # "none" /\ (c + i) % 2 = 1

GetADsKeepsValues(outcome, vals) == [err |-> outcome = "err", bruts |-> vals]

(* GetADs: the error of sendCommand is returned; an empty response and a   *)
(* response that parseValues rejects give an empty list and no error       *)
GetADs(outcome, vals) ==
    IF outcome = "err" THEN [err |-> TRUE, bruts |-> <<>>]
    ELSE IF outcome \in {"empty", "garbled"} THEN [err |-> FALSE, bruts |-> <<>>]
    ELSE [err |-> FALSE, bruts |-> vals]

(* GetADs(i) in cycle c: an error, or the list of raw values; a failing    *)
(* mock fails every other read (transport error, one value short, one      *)
(* value long, nothing received, values that do not parse)                 *)
MockRead(m, c, i, nlcs) ==
    LET n == IF ~Hit(m, c, i) \/ m.fail = "garbled" THEN nlcs
             ELSE IF m.fail = "short" THEN nlcs - 1
             ELSE IF m.fail = "long" THEN nlcs + 1 ELSE 0 IN
    GetADs(IF Hit(m, c, i) THEN m.fail ELSE "none",
           [lc \in 1..n |-> MockValue(m, c, i, lc - 1)])

(* the responses a read of task f can get *)
Reads(f) ==
    IF f.observed THEN {MockRead(f.mock, f.cycle, f.i, f.nlcs)}
    ELSE Resp(f, ReadResponses, "err")

(* readOnce, one bar: the row of nLCs values made of a response *)
Row(resp, nlcs) ==
    [lc \in 1..nlcs |->
       IF ~resp.err /\ Len(resp.bruts) > 0 /\ lc <= Len(resp.bruts)
         THEN resp.bruts[lc] ELSE 0]

ZeroRows(nbars, nlcs) == [i \in 1..nbars |-> [lc \in 1..nlcs |-> 0]]

QuotOfCountPlusOne(sum, count) == IF count > 0 THEN sum \div (count + 1) ELSE 0

(* sums[i][lc] / counts[i][lc] on int64, for counts[i][lc] > 0 *)
Quot(sum, count) == IF count > 0 THEN sum \div count ELSE 0

Final(sums, counts) ==
    [i \in 1..Len(sums) |->
       [lc \in 1..Len(sums[i]) |-> Quot(sums[i][lc], counts[i][lc])]]

FlatLCMajor(final, nbars, nlcs) ==
    [x \in 1..(nbars * nlcs) |-> final[((x - 1) % nbars) + 1][((x - 1) \div nbars) + 1]]

(* flat[i*nLCs+lc] = final[i][lc] *)
Flat(final, nbars, nlcs) ==
    [x \in 1..(nbars * nlcs) |-> final[((x - 1) \div nlcs) + 1][((x - 1) % nlcs) + 1]]

UpdateSwapsCounters(phase, ignoreDone, avgDone, final) ==
    [Phase |-> phase, IgnoreDone |-> avgDone, AvgDone |-> ignoreDone, Final |-> final]

Update(phase, ignoreDone, avgDone, final) ==
    [Phase |-> phase, IgnoreDone |-> ignoreDone, AvgDone |-> avgDone, Final |-> final]

(* onUpdate is called when the caller gave one *)
Notify(f, u) == IF f.notify THEN Append(f.updates, u) ELSE f.updates

LastBar(f) == f.i + 1 >= f.bars

(* one GetADs of readOnce: the command goes out, the row is kept *)
ReadBar(f, resp) ==
    [f EXCEPT !.lastCmd = Cmd("read", f.i),
              !.barReads = IF f.observed THEN [@ EXCEPT ![f.i + 1] = @ + 1] ELSE @,
              !.cur = IF f.observed THEN Append(@, Row(resp, f.nlcs)) ELSE @,
              !.i = IF LastBar(f) THEN 0 ELSE @ + 1]

(* readOnce begins: the loop over the bars starts at bar 0 *)
BeginCycle(f, pc) == [f EXCEPT !.pc = pc, !.i = 0, !.cur = <<>>, !.cycle = @ + 1]

(* entry: argument checks, the accumulators, then the initial live reading *)
(* when there is a callback to give it to                                  *)
SampleCall(t) ==
    LET f == tasks[t] IN
    /\ At(t, "sample")
    /\ IF f.bars = 0
         THEN Set(t, Return(f, "bars not connected", <<>>))
         ELSE IF f.avg <= 0
           THEN Set(t, Return(f, "avgTarget must be > 0", <<>>))
           ELSE LET g == [f EXCEPT !.ignoreTarget = IF @ < 0 THEN 0 ELSE @,
                                   !.sums = ZeroRows(f.bars, f.nlcs),
                                   !.counts = ZeroRows(f.bars, f.nlcs),
                                   !.barReads = [i \in 1..f.bars |-> 0]] IN
                IF f.notify
                  THEN Set(t, BeginCycle(g, "live"))
                  ELSE Set(t, [g EXCEPT !.pc = "ign", !.ignoreDone = 0])
    /\ UNCHANGED <<bus, sessVars>>

(* the initial live reading: one read per bar, no cancellation check *)
SampleLiveRead(t) ==
    LET f == tasks[t] IN
    /\ At(t, "live")
    /\ \E resp \in Reads(f) :
         LET g == ReadBar(f, resp) IN
         IF LastBar(f)
           THEN Set(t, [g EXCEPT !.pc = "ign", !.ignoreDone = 0, !.cur = <<>>,
                                 !.updates = Notify(f, Update("live", 0, 0, <<>>))])
           ELSE Set(t, g)
    /\ BusCommand(t)
    /\ UNCHANGED sessVars

(* top of the ignore loop *)
SampleIgnoreTop(t) ==
    LET f == tasks[t] IN
    /\ At(t, "ign")
    /\ IF f.ignoreDone < f.ignoreTarget
         THEN IF f.ctxDone
                THEN Set(t, Return(f, "canceled", <<>>))
                ELSE Set(t, BeginCycle(f, "ignRead"))
         ELSE Set(t, [f EXCEPT !.pc = "avg", !.ignoreDone = 0, !.avgDone = 0])
    /\ UNCHANGED <<bus, sessVars>>

SampleIgnoreRead(t) ==
    LET f == tasks[t] IN
    /\ At(t, "ignRead")
    /\ \E resp \in Reads(f) :
         LET g == ReadBar(f, resp) IN
         IF LastBar(f)
           THEN Set(t, [g EXCEPT !.pc = "ign", !.ignoreDone = @ + 1, !.cur = <<>>,
                                 !.ignored = @ + 1,
                                 !.updates = Notify(f, Update("ignoring", f.ignoreDone + 1,
                                                              0, <<>>))])
           ELSE Set(t, g)
    /\ BusCommand(t)
    /\ UNCHANGED sessVars

(* top of the averaging loop; after it the averages, the 'finished'       *)
(* callback and the flat result                                            *)
SampleAvgTop(t) ==
    LET f == tasks[t]
        final == IF f.observed THEN Final(f.sums, f.counts) ELSE <<>> IN
    /\ At(t, "avg")
    /\ IF f.avgDone < f.avg
         THEN IF f.ctxDone
                THEN Set(t, Return(f, "canceled", <<>>))
                ELSE Set(t, BeginCycle(f, "avgRead"))
         ELSE Set(t, [f EXCEPT !.pc = "acc", !.avgDone = 0,
                               !.sums = <<>>, !.counts = <<>>,
                               !.updates = Notify(f, Update("finished", f.ignoreTarget,
                                                            f.avg, final)),
                               !.flat = IF f.observed
                                          THEN Flat(final, f.bars, f.nlcs) ELSE <<>>])
    /\ cal' = IF f.kind = "cal" /\ ~(f.avgDone < f.avg)
                THEN [cal EXCEPT !.finished = @ + 1] ELSE cal
    /\ UNCHANGED <<bus, dev, started, store, ui>>

AddCycleNoCount(f, cur) ==
    [f EXCEPT !.sums = [i \in 1..Len(@) |->
                          [lc \in 1..Len(@[i]) |-> @[i][lc] + cur[i][lc]]]]

(* the cycle just read is added to the sums *)
AddCycle(f, cur) ==
    [f EXCEPT !.sums = [i \in 1..Len(@) |->
                          [lc \in 1..Len(@[i]) |-> @[i][lc] + cur[i][lc]]],
              !.counts = [i \in 1..Len(@) |-> [lc \in 1..Len(@[i]) |-> @[i][lc] + 1]]]

SampleAvgRead(t) ==
    LET f == tasks[t] IN
    /\ At(t, "avgRead")
    /\ \E resp \in Reads(f) :
         LET g == ReadBar(f, resp) IN
         IF LastBar(f)
           THEN Set(t, [(IF f.observed THEN AddCycle(g, g.cur) ELSE g)
                          EXCEPT !.pc = "avg", !.avgDone = @ + 1, !.cur = <<>>,
                                 !.summed = @ + 1,
                                 !.updates = Notify(f, Update("averaging", f.ignoreTarget,
                                                              f.avgDone + 1, <<>>))])
           ELSE Set(t, g)
    /\ BusCommand(t)
    /\ UNCHANGED sessVars

(* ---- the rest of the calibration goroutine, under calMu ---- *)

(* the step's sample goes into the accumulator *)
Accumulate(c, step) ==
    LET acc == IF step = 0
                 THEN [c EXCEPT !.calAd0 = TRUE, !.calAdv = <<{}>>]
                 ELSE IF c.calAdv # <<>>
                   THEN [c EXCEPT !.calAdv = <<c.calAdv[1] \cup {step - 1}>>]
                   ELSE c IN
    [acc EXCEPT !.calReceived = @ + 1, !.reported[step] = @ + 1]

ReceivedAll(c) == c.calReceived = c.calSteps

(* encodeCalibratedJSON and store.Put: json.MarshalIndent fails on a       *)
(* factor that is not finite, newID fails when rand.Read does              *)
StoreOutcomes == {"nil", "json: unsupported value", "rand"}

StoredWhateverComputed(out, st) == st = "nil"

(* the goroutine reaches the flash: no error from the computation, none    *)
(* from the encoding and the store                                         *)
Stored(out, st) == out = "nil" /\ st = "nil"

(* accumulate, count and broadcast 'stepDone'; when the count equals the   *)
(* plan length compute, encode and store, and go on to flash; calMu is     *)
(* held until the goroutine ends                                           *)
CalAccumulate(t) ==
    LET f == [tasks[t] EXCEPT !.ws = Broadcast(tasks[t], "stepDone", "nil")]
        c == Accumulate(cal, f.step) IN
    /\ At(t, "acc")
    /\ cal.mu = 0
    /\ IF ~ReceivedAll(c)
         THEN Set(t, Return(f, "nil", <<>>)) /\ cal' = c
         ELSE IF ~c.calAd0 \/ c.calAdv = <<>>
           THEN Set(t, Return(f, "missing calibration matrices", <<>>)) /\ cal' = c
           ELSE \E out \in ComputeOutcomes, st \in StoreOutcomes :
                  LET g == [f EXCEPT !.computed = out] IN
                  /\ cal' = [c EXCEPT !.computedOn = c.reported,
                                      !.mu = IF Stored(out, st) THEN t ELSE 0]
                  /\ IF Stored(out, st)
                       THEN Set(t, [g EXCEPT !.pc = "call", !.stored = TRUE,
                                             !.p = CalibratedParameters(f.bars)])
                       ELSE Set(t, Return(g, IF out # "nil" THEN out ELSE st, <<>>))
    /\ UNCHANGED <<bus, dev, started, store, ui>>

(* ---- the test goroutine ---- *)

(* EnsureFactorsFromDevice: top of the loop over the bars; after the loop   *)
(* CollectAveragedZeros is entered and checks its arguments                *)
EnsureTop(t) ==
    LET f == tasks[t] IN
    /\ At(t, "ensure")
    /\ IF f.i < f.bars
         THEN IF f.ctxDone
                THEN Set(t, Return(f, "canceled", <<>>))
                ELSE Set(t, [f EXCEPT !.pc = "ensureRead"])
         ELSE IF f.avg <= 0
                THEN Set(t, Return(f, "samples must be > 0", <<>>))
                ELSE Set(t, [f EXCEPT !.pc = "warm", !.i = 0, !.w = 0])
    /\ UNCHANGED <<bus, sessVars>>

EnsureReadFactors(t) ==
    LET f == tasks[t] IN
    /\ At(t, "ensureRead")
    /\ \E resp \in Resp(f, ReadResponses, "err") :
         IF resp = "ok"
           THEN Set(t, [f EXCEPT !.lastCmd = Cmd("factors?", f.i), !.i = @ + 1,
                                 !.pc = "ensure"])
           ELSE Set(t, Return([f EXCEPT !.lastCmd = Cmd("factors?", f.i)],
                              "could not read factors", <<f.i + 1>>))
    /\ BusCommand(t)
    /\ UNCHANGED sessVars

(* CollectAveragedZeros: top of the warm-up loop *)
ZerosWarmupTop(t) ==
    LET f == tasks[t] IN
    /\ At(t, "warm")
    /\ IF f.w < Warmup(Ignore(f.avg))
         THEN IF f.ctxDone
                THEN Set(t, Return(f, "canceled", <<>>))
                ELSE Set(t, [f EXCEPT !.pc = "warmRead", !.i = 0])
         ELSE Set(t, [f EXCEPT !.pc = "samp", !.w = 0, !.s = 0, !.count = 0])
    /\ UNCHANGED <<bus, sessVars>>

ZerosWarmupRead(t) ==
    LET f == tasks[t] IN
    /\ At(t, "warmRead")
    /\ \E resp \in Resp(f, ReadResponses, "err") :
         IF LastBar(f)
           THEN Set(t, [f EXCEPT !.lastCmd = Cmd("read", f.i), !.i = 0,
                                 !.pc = "warm", !.w = @ + 1])
           ELSE Set(t, [f EXCEPT !.lastCmd = Cmd("read", f.i), !.i = @ + 1])
    /\ BusCommand(t)
    /\ UNCHANGED sessVars

(* top of the sampling loop; after it the fallback when nothing was read *)
ZerosSampleTop(t) ==
    LET f == tasks[t] IN
    /\ At(t, "samp")
    /\ IF f.s < f.avg
         THEN IF f.ctxDone
                THEN Set(t, Return(f, "canceled", <<>>))
                ELSE Set(t, [f EXCEPT !.pc = "sampRead", !.i = 0, !.gotAny = FALSE])
         ELSE IF f.count = 0
                THEN Set(t, [f EXCEPT !.pc = "fallback", !.i = 0, !.s = 0])
                ELSE Set(t, [f EXCEPT !.pc = "tick", !.s = 0, !.count = 0,
                                      !.ws = Broadcast(f, "zerosDone", "nil")])
    /\ UNCHANGED <<bus, sessVars>>

ZerosSampleRead(t) ==
    LET f == tasks[t] IN
    /\ At(t, "sampRead")
    /\ \E resp \in Resp(f, ReadResponses, "err") :
         LET got == f.gotAny \/ resp = "ok" IN
         IF LastBar(f)
           THEN Set(t, [f EXCEPT !.lastCmd = Cmd("read", f.i), !.i = 0,
                                 !.pc = "samp", !.s = @ + 1, !.gotAny = FALSE,
                                 !.count = IF got THEN @ + 1 ELSE @])
           ELSE Set(t, [f EXCEPT !.lastCmd = Cmd("read", f.i), !.i = @ + 1,
                                 !.gotAny = got])
    /\ BusCommand(t)
    /\ UNCHANGED sessVars

ZerosFallbackRead(t) ==
    LET f == tasks[t] IN
    /\ At(t, "fallback")
    /\ \E resp \in Resp(f, ReadResponses, "err") :
         IF LastBar(f)
           THEN Set(t, [f EXCEPT !.lastCmd = Cmd("read", f.i), !.i = 0, !.pc = "tick",
                                 !.ws = Broadcast(f, "zerosDone", "nil")])
           ELSE Set(t, [f EXCEPT !.lastCmd = Cmd("read", f.i), !.i = @ + 1])
    /\ BusCommand(t)
    /\ UNCHANGED sessVars

(* the snapshots a task has broadcast *)
Snapshots(f) == Cardinality({n \in 1..Len(f.ws) : f.ws[n].Type = "snapshot"})

(* the select of the snapshot loop: a cancelled context ends the task, a   *)
(* tick starts a snapshot; when both are ready either case may be taken    *)
TestTick(t) ==
    LET f == tasks[t] IN
    /\ At(t, "tick")
    /\ \/ f.ctxDone /\ Set(t, Return(f, "stopped", <<>>))
       \/ Snapshots(f) < MaxSnapshots /\ Set(t, [f EXCEPT !.pc = "snap", !.i = 0])
    /\ UNCHANGED <<bus, sessVars>>

(* ComputeTestSnapshot: one read per bar, a read error ends the task *)
TestSnapshotRead(t) ==
    LET f == tasks[t] IN
    /\ At(t, "snap")
    /\ \E resp \in Resp(f, ReadResponses, "err") :
         IF resp = "err"
           THEN Set(t, Return([f EXCEPT !.lastCmd = Cmd("read", f.i)],
                              "read error", <<f.i + 1>>))
           ELSE IF LastBar(f)
             THEN Set(t, [f EXCEPT !.lastCmd = Cmd("read", f.i), !.i = 0, !.pc = "tick",
                                   !.ws = Broadcast(f, "snapshot", "nil")])
             ELSE Set(t, [f EXCEPT !.lastCmd = Cmd("read", f.i), !.i = @ + 1])
    /\ BusCommand(t)
    /\ UNCHANGED sessVars

(* the goroutine ends: a calibration step releases calMu *)
TaskExit(t) ==
    /\ At(t, "returned")
    /\ Set(t, IdleTask)
    /\ cal' = IF cal.mu = t THEN [cal EXCEPT !.mu = 0] ELSE cal
    /\ UNCHANGED <<bus, dev, started, store, ui>>

(* ---- the server: every handler on a session of SpecBars bars ---- *)

SpecBars == 1
SpecStarts == 2

StoredCalibrated == {<<[LC |-> lc, LCS |-> 1]>> : lc \in 0..1}

PortOutcomes == {"open", "busy", "none"}

(* what a connect request meets: an unknown config id, a port that is not  *)
(* opened, or an open port and the answer to the version probe             *)
ConnectInputs ==
    {[found |-> FALSE, port |-> "open", resp |-> "version"]}
      \cup [found : {TRUE}, port : PortOutcomes \ {"open"}, resp : {"version"}]
      \cup [found : {TRUE}, port : {"open"}, resp : VersionResponses]

(* configurations to upload: n bars with masks of the set masks; store is  *)
(* the set of the uploaded ones                                            *)
Configs(n, masks, avgs) == [id : {1}, lcs : [1..n -> masks], avg : avgs]

Init ==
    /\ tasks = [t \in TaskIds |-> IdleTask]
    /\ bus = [last |-> 0, max |-> 0]
    /\ dev = NoSession
    /\ cal = NoCal
    /\ started = 0
    /\ store = Configs(SpecBars, {(2 ^ SessionNLCs) - 1}, 1..MaxAvg)
    /\ ui = NoUi

Next ==
    \/ \E cfg \in store, in \in ConnectInputs :
         HandleConnect(cfg, in.found, in.port, in.resp)
    \/ HandleDisconnect
    \/ HandleStopOp
    \/ HandleTestStart(SpecStarts)
    \/ \E found \in BOOLEAN, p \in StoredCalibrated :
         HandleFlashStart(found, p, SpecStarts)
    \/ \E stepIndex \in 0..PlanLen(SpecBars, SessionNLCs) :
         HandleCalStartStep(stepIndex, SpecStarts)
    \/ \E t \in TaskIds : HandleCalStartStepLaunch(t)
    \/ \E t \in TaskIds : SampleCall(t)
    \/ \E t \in TaskIds : SampleLiveRead(t)
    \/ \E t \in TaskIds : SampleIgnoreTop(t)
    \/ \E t \in TaskIds : SampleIgnoreRead(t)
    \/ \E t \in TaskIds : SampleAvgTop(t)
    \/ \E t \in TaskIds : SampleAvgRead(t)
    \/ \E t \in TaskIds : CalAccumulate(t)
    \/ \E t \in TaskIds : EnsureTop(t)
    \/ \E t \in TaskIds : EnsureReadFactors(t)
    \/ \E t \in TaskIds : ZerosWarmupTop(t)
    \/ \E t \in TaskIds : ZerosWarmupRead(t)
    \/ \E t \in TaskIds : ZerosSampleTop(t)
    \/ \E t \in TaskIds : ZerosSampleRead(t)
    \/ \E t \in TaskIds : ZerosFallbackRead(t)
    \/ \E t \in TaskIds : TestTick(t)
    \/ \E t \in TaskIds : TestSnapshotRead(t)
    \/ \E t \in TaskIds : FlashStep(t)
    \/ \E t \in TaskIds : TaskExit(t)

Spec == Init /\ [][Next]_vars

(* ---- calibration: step requests on a connected session of CalBars bars ---- *)

CalBars == 2
CalStarts == 4

InitCal ==
    /\ tasks = [t \in TaskIds |-> IdleTask]
    /\ bus = [last |-> 0, max |-> 0]
    /\ dev = Session([id |-> 1, lcs |-> [b \in 1..CalBars |-> (2 ^ SessionNLCs) - 1], avg |-> 1])
    /\ cal = NoCal
    /\ started = 0
    /\ store = {}
    /\ ui = NoUi

NextCal ==
    \/ \E stepIndex \in 0..PlanLen(CalBars, SessionNLCs) :
         HandleCalStartStep(stepIndex, CalStarts)
    \/ \E t \in TaskIds : HandleCalStartStepLaunch(t)
    \/ \E t \in TaskIds : SampleCall(t)
    \/ \E t \in TaskIds : SampleLiveRead(t)
    \/ \E t \in TaskIds : SampleIgnoreTop(t)
    \/ \E t \in TaskIds : SampleIgnoreRead(t)
    \/ \E t \in TaskIds : SampleAvgTop(t)
    \/ \E t \in TaskIds : SampleAvgRead(t)
    \/ \E t \in TaskIds : CalAccumulate(t)
    \/ \E t \in TaskIds : FlashStep(t)
    \/ \E t \in TaskIds : TaskExit(t)

SpecCal == InitCal /\ [][NextCal]_vars

(* ---- calibration: step requests that arrive after the plan is complete ---- *)

LateStarts == 2

(* the accumulator after steps 0..N were each reported once, the          *)
(* coefficients computed and the flash that follows finished              *)
CompletePlan ==
    LET steps == PlanLen(CalBars, SessionNLCs)
        once == [x \in StepIdx |-> IF x < steps THEN 1 ELSE 0] IN
    [mu |-> 0, calAd0 |-> TRUE, calAdv |-> <<0..(steps - 2)>>,
     calReceived |-> steps, calSteps |-> steps,
     reported |-> once, computedOn |-> once, finished |-> steps]

InitLate ==
    /\ tasks = [t \in TaskIds |-> IdleTask]
    /\ bus = [last |-> 0, max |-> 0]
    /\ dev = Session([id |-> 1, lcs |-> [b \in 1..CalBars |-> (2 ^ SessionNLCs) - 1], avg |-> 1])
    /\ cal = CompletePlan
    /\ started = 0
    /\ store = {}
    /\ ui = NoUi

(* the count cannot come back to the plan length within LateStarts         *)
(* requests, so the computation and the flash are out of reach here        *)
NextLate ==
    \/ \E stepIndex \in 0..PlanLen(CalBars, SessionNLCs) :
         HandleCalStartStep(stepIndex, LateStarts)
    \/ \E t \in TaskIds : HandleCalStartStepLaunch(t)
    \/ \E t \in TaskIds : SampleCall(t)
    \/ \E t \in TaskIds : SampleLiveRead(t)
    \/ \E t \in TaskIds : SampleIgnoreTop(t)
    \/ \E t \in TaskIds : SampleIgnoreRead(t)
    \/ \E t \in TaskIds : SampleAvgTop(t)
    \/ \E t \in TaskIds : SampleAvgRead(t)
    \/ \E t \in TaskIds : CalAccumulate(t)
    \/ \E t \in TaskIds : TaskExit(t)

SpecLate == InitLate /\ [][NextLate]_vars

(* ---- connect and disconnect requests on configurations of every kind ---- *)

ConnBars == 2
ConnStarts == 1
ConnMasks == {0, 1, 3, 16}

ConnConfigs == Configs(ConnBars, ConnMasks, {1})

InitConnect ==
    /\ tasks = [t \in TaskIds |-> IdleTask]
    /\ bus = [last |-> 0, max |-> 0]
    /\ dev = NoSession
    /\ cal = NoCal
    /\ started = 0
    /\ \E cfg \in ConnConfigs : store = {cfg}
    /\ ui = NoUi

NextConnect ==
    \/ \E cfg \in store, in \in ConnectInputs :
         HandleConnect(cfg, in.found, in.port, in.resp)
    \/ HandleDisconnect
    \/ HandleStopOp
    \/ HandleTestStart(ConnStarts)
    \/ \E t \in TaskIds : EnsureTop(t)
    \/ \E t \in TaskIds : EnsureReadFactors(t)
    \/ \E t \in TaskIds : ZerosWarmupTop(t)
    \/ \E t \in TaskIds : ZerosWarmupRead(t)
    \/ \E t \in TaskIds : ZerosSampleTop(t)
    \/ \E t \in TaskIds : ZerosSampleRead(t)
    \/ \E t \in TaskIds : ZerosFallbackRead(t)
    \/ \E t \in TaskIds : TestTick(t)
    \/ \E t \in TaskIds : TestSnapshotRead(t)
    \/ \E t \in TaskIds : TaskExit(t)

SpecConnect == InitConnect /\ [][NextConnect]_vars

(* ---- the command-line programs: NewLeo485 and the deferred Close ---- *)

CliBars == 3

(* NewLeo485 of the bar list in p: log.Fatal ends the process (and with it *)
(* the port it holds) when the port cannot be opened or a bar has another   *)
(* number of active channels than the first                                 *)
NewLeo485(t) ==
    LET f == tasks[t]
        nlcs == countActiveLCs(f.p[1])
        mismatch == \E b \in 1..Len(f.p) : countActiveLCs(f.p[b]) # nlcs IN
    /\ At(t, "open")
    /\ \E port \in {"open", "busy"} :
         IF port = "busy"
           THEN /\ Set(t, [f EXCEPT !.pc = "panicked"])
                /\ dev' = dev
           ELSE IF mismatch
             THEN /\ Set(t, [f EXCEPT !.pc = "panicked"])
                  /\ dev' = [dev EXCEPT !.peak = 1, !.tried = f.p]
             ELSE /\ Set(t, [f EXCEPT !.pc = "opened"])
                  /\ dev' = [dev EXCEPT !.bars = Len(f.p), !.lcs = f.p, !.nlcs = nlcs,
                                        !.open = 1, !.peak = 1, !.tried = f.p]
    /\ UNCHANGED <<bus, cal, started, store, ui>>

(* defer bars.Close() *)
LeoClose(t) ==
    LET f == tasks[t] IN
    /\ At(t, "opened")
    /\ Set(t, Return(f, "nil", <<>>))
    /\ dev' = [dev EXCEPT !.bars = 0, !.lcs = <<>>, !.nlcs = 0, !.open = @ - 1]
    /\ UNCHANGED <<bus, cal, started, store, ui>>

InitCli ==
    /\ \E n \in 1..CliBars : \E lcs \in [1..n -> ConnMasks] :
         tasks = [t \in TaskIds |->
                    IF t = 1
                      THEN [IdleTask EXCEPT !.kind = "cli", !.gen = 1, !.pc = "open",
                                            !.observed = TRUE, !.p = lcs]
                      ELSE IdleTask]
    /\ bus = [last |-> 0, max |-> 0]
    /\ dev = NoSession
    /\ cal = NoCal
    /\ started = 1
    /\ store = {}
    /\ ui = NoUi

NextCli ==
    \/ NewLeo485(1)
    \/ LeoClose(1)

SpecCli == InitCli /\ [][NextCli]_vars

(* ---- the goroutine of the calibration step that completes the plan ---- *)

(* the accumulator when every step but the weight step last was reported *)
AllButStep(last) ==
    LET steps == PlanLen(CalBars, SessionNLCs) IN
    [NoCal EXCEPT !.calAd0 = TRUE,
                  !.calAdv = <<(0..(steps - 2)) \ {last - 1}>>,
                  !.calReceived = steps - 1, !.calSteps = steps,
                  !.finished = steps - 1,
                  !.reported = [x \in StepIdx |-> IF x < steps /\ x # last THEN 1 ELSE 0]]

InitStep ==
    /\ \E last \in 1..(PlanLen(CalBars, SessionNLCs) - 1), avg \in 1..MaxAvg :
         LET cfg == [id |-> 1, lcs |-> [b \in 1..CalBars |-> (2 ^ SessionNLCs) - 1],
                     avg |-> avg] IN
         /\ tasks = [t \in TaskIds |->
                      IF t = 1
                        THEN [IdleTask EXCEPT !.kind = "cal", !.gen = 1, !.pc = "sample",
                                              !.observed = TRUE, !.step = last,
                                              !.bars = CalBars, !.avg = avg,
                                              !.nlcs = SessionNLCs,
                                              !.ignoreTarget = Ignore(avg),
                                              !.notify = TRUE]
                        ELSE IdleTask]
         /\ dev = [Session(cfg) EXCEPT !.opCancel = 1, !.opKind = "calibration"]
         /\ store = {cfg}
         /\ ui = NoUi
         /\ cal = AllButStep(last)
    /\ bus = [last |-> 0, max |-> 0]
    /\ started = 1

NextStep ==
    \/ SampleCall(1)
    \/ SampleLiveRead(1)
    \/ SampleIgnoreTop(1)
    \/ SampleIgnoreRead(1)
    \/ SampleAvgTop(1)
    \/ SampleAvgRead(1)
    \/ CalAccumulate(1)
    \/ FlashStep(1)
    \/ CtxCancel(1)

SpecStep == InitStep /\ [][NextStep]_vars

(* ---- the goroutine of one test start, and its cancellation ---- *)

TestBars == 3

InitTest ==
    /\ \E n \in 1..TestBars, avg \in 1..MaxAvg :
         LET cfg == [id |-> 1, lcs |-> [b \in 1..n |-> 1], avg |-> avg] IN
         /\ tasks = [t \in TaskIds |->
                      IF t = 1
                        THEN [IdleTask EXCEPT !.kind = "test", !.gen = 1, !.pc = "ensure",
                                              !.observed = TRUE,
                                              !.bars = n, !.avg = avg, !.nlcs = 1,
                                              !.ignoreTarget = Ignore(avg),
                                              !.notify = TRUE]
                        ELSE IdleTask]
         /\ dev = [Session(cfg) EXCEPT !.opCancel = 1, !.opKind = "test"]
         /\ store = {cfg}
         /\ ui = NoUi
    /\ bus = [last |-> 0, max |-> 0]
    /\ cal = NoCal
    /\ started = 1

NextTest ==
    \/ EnsureTop(1)
    \/ EnsureReadFactors(1)
    \/ ZerosWarmupTop(1)
    \/ ZerosWarmupRead(1)
    \/ ZerosSampleTop(1)
    \/ ZerosSampleRead(1)
    \/ ZerosFallbackRead(1)
    \/ TestTick(1)
    \/ TestSnapshotRead(1)
    \/ CtxCancel(1)

SpecTest == InitTest /\ [][NextTest]_vars

(* ---- BuildCalibrationPlan ---- *)

PlanBars == 4
PlanLCs == 4

NLoadsAllBars(nbars, nlcs) == 3 * nbars * nlcs

(* nloads := 3 * (nbars - 1) * nlcs *)
NLoads(nbars, nlcs) == 3 * (nbars - 1) * nlcs

(* the step of the zero sampling; its prompt names no placement *)
ZeroStep == [Kind |-> "zero", Index |-> -1, Bay |-> -1, Side |-> -1, FB |-> -1]

(* weight step j, with the placement its prompt asks for *)
WeightStep(j) ==
    [Kind |-> "weight", Index |-> j, Bay |-> j \div 6, Side |-> (j \div 2) % 3, FB |-> j % 2]

(* the argument checks and the zero step *)
PlanCall(t) ==
    LET f == tasks[t] IN
    /\ At(t, "plan")
    /\ IF f.pNil
         THEN Set(t, Return(f, "parameters nil", <<>>))
         ELSE IF f.bars = 0
           THEN Set(t, Return(f, "no bars configured", <<>>))
           ELSE IF f.nlcs <= 0
             THEN Set(t, Return(f, "nlcs must be > 0", <<>>))
             ELSE Set(t, [f EXCEPT !.pc = "planLoop", !.j = 0,
                                   !.nloads = NLoads(f.bars, f.nlcs),
                                   !.steps = <<ZeroStep>>])
    /\ UNCHANGED <<bus, sessVars>>

(* the loop over the loads: one weight step is appended per pass *)
PlanLoop(t) ==
    LET f == tasks[t] IN
    /\ At(t, "planLoop")
    /\ IF f.j < f.nloads
         THEN Set(t, [f EXCEPT !.steps = Append(@, WeightStep(f.j)), !.j = @ + 1])
         ELSE Set(t, Return(f, "nil", <<>>))
    /\ UNCHANGED <<bus, sessVars>>

InitPlan ==
    /\ \E nil \in BOOLEAN, nbars \in 0..PlanBars, nlcs \in 0..PlanLCs :
         tasks = [t \in TaskIds |->
                    IF t = 1
                      THEN [IdleTask EXCEPT !.kind = "plan", !.gen = 1, !.pc = "plan",
                                            !.observed = TRUE, !.pNil = nil,
                                            !.bars = IF nil THEN 0 ELSE nbars,
                                            !.nlcs = nlcs]
                      ELSE IdleTask]
    /\ bus = [last |-> 0, max |-> 0]
    /\ dev = NoSession
    /\ cal = NoCal
    /\ started = 1
    /\ store = {}
    /\ ui = NoUi

NextPlan ==
    \/ PlanCall(1)
    \/ PlanLoop(1)

SpecPlan == InitPlan /\ [][NextPlan]_vars

(* ---- Leo485.GetDeviceFactors on an arbitrary response ---- *)

MaxChunks == 4
FacLCs == 2

(* the bit patterns of float32(1e6) and of the largest float32 that is not *)
(* above 1e-6: a float32 exceeds the limit exactly when its magnitude bits *)
(* exceed the pattern                                                      *)
MillionBits == 1232348160
MicroBits == 897988541

anchorBE == <<63, 128, 0, 0>>
anchorLE == <<0, 0, 128, 63>>

(* b[i : i+n] *)
Slice(b, i, n) == SubSeq(b, i + 1, i + n)

(* math.Float32frombits of the four bytes, most significant first: the     *)
(* sign bit and the 31 bits of exponent and mantissa                       *)
Float32frombits(c) ==
    [neg |-> c[1] >= 128,
     mag |-> (((c[1] % 128) * 256 + c[2]) * 256 + c[3]) * 256 + c[4]]

BigEndian(c) == Float32frombits(c)
LittleEndian(c) == Float32frombits(<<c[4], c[3], c[2], c[1]>>)

(* finite and of magnitude at most 1e6 *)
Valid(v) == v.mag <= MillionBits

(* of magnitude above 1e-6 *)
Reasonable(v) == v.mag > MicroBits

(* the nlcs 4-byte groups from offset start, in one byte order *)
Decode(b, start, nlcs, useLE) ==
    [j \in 1..nlcs |-> IF useLE THEN LittleEndian(Slice(b, start + 4 * (j - 1), 4))
                                ELSE BigEndian(Slice(b, start + 4 * (j - 1), 4))]

AllValid(vs) == \A j \in 1..Len(vs) : Valid(vs[j])
AnyReasonable(vs) == \E j \in 1..Len(vs) : Reasonable(vs[j])

(* an anchor of either byte order at i with room for the groups after it *)
AnchorAt(b, i, nlcs) ==
    /\ i + 4 + 4 * nlcs <= Len(b)
    /\ Slice(b, i, 4) \in {anchorBE, anchorLE}

AnchorVals(b, i, nlcs) == Decode(b, i + 4, nlcs, Slice(b, i, 4) = anchorLE)

(* the positions at which the anchor pass would return *)
AnchorHits(b, nlcs) ==
    {i \in 0..(Len(b) - 4) : AnchorAt(b, i, nlcs) /\ AllValid(AnchorVals(b, i, nlcs))}

Accepted(b, start, nlcs, useLE) ==
    /\ AllValid(Decode(b, start, nlcs, useLE))
    /\ AnyReasonable(Decode(b, start, nlcs, useLE))

(* the window starts at which the fallback pass would return *)
WindowHits(b, nlcs) ==
    {w \in 0..(Len(b) - 4 * nlcs) : Accepted(b, w, nlcs, FALSE) \/ Accepted(b, w, nlcs, TRUE)}

Last(S) == CHOOSE x \in S : \A y \in S : y <= x

(* both passes scan upwards and return at the first hit *)
First(S) == CHOOSE x \in S : \A y \in S : x <= y

NoValidFactors == "no valid factors found in response"

(* the responses: up to MaxChunks pieces, with and without anchors, with   *)
(* groups that are valid, invalid, plausible in one byte order or in both  *)
FacChunks ==
    {<<>>, <<0, 0, 128>>, <<127>>, anchorBE, anchorLE,
     <<127, 128, 0, 0>>, <<63, 0, 128, 63>>, <<0, 0, 32, 65>>}

RECURSIVE Buffers(_)
Buffers(n) ==
    IF n = 0 THEN {<<>>}
    ELSE {c \o b : c \in FacChunks, b \in Buffers(n - 1)}

(* the X command and its response *)
FactorsCall(t) ==
    LET f == tasks[t] IN
    /\ At(t, "factors")
    /\ IF f.respErr # "nil" \/ Len(f.resp) = 0
         THEN Set(t, Return(f, f.respErr, <<>>))
         ELSE Set(t, [f EXCEPT !.pc = "anchor"])
    /\ UNCHANGED <<bus, sessVars>>

(* the anchor pass *)
FactorsAnchorPass(t) ==
    LET f == tasks[t]
        hits == AnchorHits(f.resp, f.nlcs) IN
    /\ At(t, "anchor")
    /\ IF hits # {}
         THEN Set(t, Return([f EXCEPT !.vals = AnchorVals(f.resp, First(hits), f.nlcs)],
                            "nil", <<>>))
         ELSE Set(t, [f EXCEPT !.pc = "window"])
    /\ UNCHANGED <<bus, sessVars>>

(* the sliding window, big-endian first at each start *)
FactorsWindowPass(t) ==
    LET f == tasks[t]
        hits == WindowHits(f.resp, f.nlcs) IN
    /\ At(t, "window")
    /\ IF hits # {}
         THEN Set(t, Return([f EXCEPT !.vals =
                                Decode(f.resp, First(hits), f.nlcs,
                                       ~Accepted(f.resp, First(hits), f.nlcs, FALSE))],
                            "nil", <<>>))
         ELSE Set(t, Return(f, NoValidFactors, <<>>))
    /\ UNCHANGED <<bus, sessVars>>

InitFactors ==
    /\ \E nlcs \in 1..FacLCs, b \in Buffers(MaxChunks), e \in {"nil", "timeout"} :
         tasks = [t \in TaskIds |->
                    IF t = 1
                      THEN [IdleTask EXCEPT !.kind = "factors", !.gen = 1,
                                            !.pc = "factors", !.observed = TRUE,
                                            !.nlcs = nlcs,
                                            !.resp = IF e = "nil" THEN b ELSE <<>>,
                                            !.respErr = e]
                      ELSE IdleTask]
    /\ bus = [last |-> 0, max |-> 0]
    /\ dev = NoSession
    /\ cal = NoCal
    /\ started = 1
    /\ store = {}
    /\ ui = NoUi

NextFactors ==
    \/ FactorsCall(1)
    \/ FactorsAnchorPass(1)
    \/ FactorsWindowPass(1)

SpecFactors == InitFactors /\ [][NextFactors]_vars

(* ---- UpdateMatrixZero on the zero sample of a session ---- *)

MatBars == 2
MatLCs == 2
MatValues == {0, 1}

(* matrix.NewMatrix: rows x cols zeros; Values[i] is row i *)
NewMatrix(rows, cols) == [i \in 1..rows |-> [j \in 1..cols |-> 0]]

(* Matrix.SetRow: row i becomes the vector *)
SetRow(m, i, v) == [m EXCEPT ![i + 1] = v]

Ad0RowsPerBar(calibs, nlcs) == calibs

(* the rows of Ad0 *)
Ad0Rows(calibs, nlcs) == calibs * nlcs

(* the vector of the sample and the matrix of zeros *)
UpdateMatrixZeroCall(t) ==
    LET f == tasks[t]
        nbars == Len(f.flat) \div f.nlcs IN
    /\ At(t, "umz")
    /\ Set(t, [f EXCEPT !.pc = "umzRow", !.i = 0,
                        !.ad0 = NewMatrix(Ad0Rows(f.calibs, f.nlcs), nbars * f.nlcs)])
    /\ UNCHANGED <<bus, sessVars>>

(* the loop over the rows *)
UpdateMatrixZeroRow(t) ==
    LET f == tasks[t] IN
    /\ At(t, "umzRow")
    /\ IF f.i < f.calibs * f.nlcs
         THEN IF f.i < Len(f.ad0)
                THEN Set(t, [f EXCEPT !.ad0 = SetRow(@, f.i, f.flat), !.i = @ + 1])
                ELSE Set(t, [f EXCEPT !.pc = "panicked"])
         ELSE Set(t, Return(f, "nil", <<>>))
    /\ UNCHANGED <<bus, sessVars>>

(* the call of the step goroutine: calibs := 3 * (nbars - 1), flat the     *)
(* result of SampleADCs on nbars bars of nlcs channels                     *)
InitMatrix ==
    /\ \E nbars \in 1..MatBars, nlcs \in 1..MatLCs :
         \E flat \in [1..(nbars * nlcs) -> MatValues] :
           tasks = [t \in TaskIds |->
                      IF t = 1
                        THEN [IdleTask EXCEPT !.kind = "matrix", !.gen = 1, !.pc = "umz",
                                              !.observed = TRUE, !.bars = nbars,
                                              !.nlcs = nlcs, !.flat = flat,
                                              !.calibs = 3 * (nbars - 1)]
                        ELSE IdleTask]
    /\ bus = [last |-> 0, max |-> 0]
    /\ dev = NoSession
    /\ cal = NoCal
    /\ started = 1
    /\ store = {}
    /\ ui = NoUi

NextMatrix ==
    \/ UpdateMatrixZeroCall(1)
    \/ UpdateMatrixZeroRow(1)

SpecMatrix == InitMatrix /\ [][NextMatrix]_vars

(* ---- ComputeZerosAndFactors on the accumulator of a session ---- *)

(* what the call meets: a nil matrix, a nil InverseSVD, a nil MulVector,   *)
(* or a solved factor vector                                               *)
SolveOutcomes == {"ok", "adv nil", "ad0 nil", "svd", "mul"}

(* float32(v) of a float64: the low bit of v stands for the precision that *)
(* the conversion drops                                                    *)
Float32(v) == (v \div 2) * 2

(* the factor vector of a solve: one entry per column, all different *)
SolvedFactors(n) == [x \in 1..n |-> 2 * x + 101]

(* p.BARS[i].LC before the call: no records, or one record per bar *)
OldRecords(nbars, old) ==
    [i \in 1..nbars |-> IF old = 0 THEN <<>> ELSE <<[ZERO |-> 7, FACTOR |-> 8]>>]

RecIndexFirstChannel(i, j, nlcs) == i * nlcs

(* idx := i*nlcs + j *)
RecIndex(i, j, nlcs) == i * nlcs + j

MulFailedIgnored(solve) == FALSE

(* factors == nil *)
MulFailed(solve) == solve = "mul"

(* the checks, the solve, and row 0 of ad0 *)
ComputeCall(t) ==
    LET f == tasks[t] IN
    /\ At(t, "czf")
    /\ IF f.solve \in {"adv nil", "ad0 nil"}
         THEN Set(t, Return(f, "missing matrices", <<>>))
         ELSE IF f.pNil
           THEN Set(t, Return(f, "parameters nil", <<>>))
           ELSE IF f.solve = "svd"
             THEN Set(t, Return(f, "SVD failed; cannot compute pseudoinverse", <<>>))
             ELSE IF MulFailed(f.solve)
               THEN Set(t, Return(f, "pseudoinverse multiplication failed", <<>>))
               ELSE IF Len(f.ad0) = 0 \/ f.factors = <<>>
                 THEN Set(t, [f EXCEPT !.pc = "panicked"])
                 ELSE Set(t, [f EXCEPT !.pc = "czfBar", !.i = 0])
    /\ UNCHANGED <<bus, sessVars>>

(* the loop over the bars: bar i gets its list of nlcs records *)
ComputeBar(t) ==
    LET f == tasks[t]
        zeros == f.ad0[1]
        nbars == Len(f.recs)
        nlcs == Len(zeros) \div nbars IN
    /\ At(t, "czfBar")
    /\ IF f.i < nbars
         THEN Set(t, [f EXCEPT !.i = @ + 1,
                               !.recs[f.i + 1] =
                                   [j \in 1..nlcs |->
                                      [ZERO |-> zeros[RecIndex(f.i, j - 1, nlcs) + 1],
                                       FACTOR |-> Float32(f.factors[RecIndex(f.i, j - 1, nlcs) + 1])]]])
         ELSE Set(t, Return(f, "nil", <<>>))
    /\ UNCHANGED <<bus, sessVars>>

(* the call of the step goroutine that completes a plan: ad0 as            *)
(* UpdateMatrixZero made it of the zero sample, p the session parameters   *)
InitCompute ==
    /\ \E nbars \in 1..MatBars, nlcs \in 1..MatLCs, old \in 0..1,
          solve \in SolveOutcomes, nil \in BOOLEAN :
         \E flat \in [1..(nbars * nlcs) -> MatValues] :
           tasks = [t \in TaskIds |->
                      IF t = 1
                        THEN [IdleTask EXCEPT
                                !.kind = "compute", !.gen = 1, !.pc = "czf",
                                !.observed = TRUE, !.bars = nbars, !.nlcs = nlcs,
                                !.pNil = nil, !.solve = solve,
                                !.flat = flat,
                                !.ad0 = IF solve = "ad0 nil" THEN <<>>
                                        ELSE [r \in 1..Ad0Rows(3 * (nbars - 1), nlcs) |-> flat],
                                !.factors = IF solve = "ok"
                                              THEN SolvedFactors(nbars * nlcs) ELSE <<>>,
                                !.recs = IF nil THEN <<>> ELSE OldRecords(nbars, old),
                                !.recs0 = IF nil THEN <<>> ELSE OldRecords(nbars, old)]
                        ELSE IdleTask]
    /\ bus = [last |-> 0, max |-> 0]
    /\ dev = NoSession
    /\ cal = NoCal
    /\ started = 1
    /\ store = {}
    /\ ui = NoUi

NextCompute ==
    \/ ComputeCall(1)
    \/ ComputeBar(1)

SpecCompute == InitCompute /\ [][NextCompute]_vars

(* ---- the zero and factor payloads of one bar ---- *)

(* strings are sequences of one-character strings *)
Digit(d) == <<"0", "1", "2", "3", "4", "5", "6", "7", "8", "9">>[d + 1]

RECURSIVE Decimal(_)
Decimal(n) == IF n < 10 THEN <<Digit(n)>> ELSE Append(Decimal(n \div 10), Digit(n % 10))

RECURSIVE ZeroPad(_, _)
ZeroPad(s, width) == IF Len(s) >= width THEN s ELSE ZeroPad(<<"0">> \o s, width)

(* Sprintf("%09d|", n) and Sprintf("%09.0f|", v) of a whole v >= 0: at     *)
(* least 9 digits, zero padded, then the bar                               *)
Sprintf09(n) == Append(ZeroPad(Decimal(n), 9), "|")

(* a FACTOR is held in tenths; Sprintf("%.10f|", v): sign, whole part,     *)
(* point, ten decimals, then the bar                                       *)
SprintfF10(tenths) ==
    LET a == IF tenths < 0 THEN 0 - tenths ELSE tenths IN
    (IF tenths < 0 THEN <<"-">> ELSE <<>>) \o Decimal(a \div 10) \o <<".">>
      \o <<Digit(a % 10)>> \o [x \in 1..9 |-> "0"] \o <<"|">>

(* "1.0000000000|" *)
FactorFiller == <<"1", ".", "0", "0", "0", "0", "0", "0", "0", "0", "0", "0", "|">>

(* uint64(NaN) of the average of a bar without records: 0 on arm64, the    *)
(* sign bit alone on amd64                                                 *)
NaNToUint64 ==
    {Decimal(0),
     <<"9", "2", "2", "3", "3", "7", "2", "0", "3", "6", "8", "5", "4", "7", "7", "5", "8", "0", "8">>}

(* the records a bar is built from, in channel order *)
ChannelRecords ==
    <<[ZERO |-> 7, FACTOR |-> 25], [ZERO |-> 42, FACTOR |-> 10],
      [ZERO |-> 0, FACTOR |-> -5], [ZERO |-> 12345678, FACTOR |-> 15]>>

RECURSIVE WeightedZeros(_, _)
WeightedZeros(lc, n) ==
    IF n = 0 THEN 0 ELSE WeightedZeros(lc, n - 1) + lc[n].ZERO * lc[n].FACTOR

(* zeravg, in tenths: the sum of ZERO*FACTOR, not below 0 *)
Zeravg(lc) == IF WeightedZeros(lc, Len(lc)) < 0 THEN 0 ELSE WeightedZeros(lc, Len(lc))

(* uint64(zeravg/float64(nlcs) + 0.5) *)
ZeroAverage(lc) == (2 * Zeravg(lc) + 10 * Len(lc)) \div (20 * Len(lc))

MaskBitDescending(lcs, ii) == (lcs \div (2 ^ (MaskSlots - 1 - ii))) % 2 = 1

(* (LCS & (1 << ii)) != 0 *)
MaskBit(lcs, ii) == (lcs \div (2 ^ ii)) % 2 = 1

(* one pass of the loop over ii that builds the zeros payload *)
ZeroSlot(t) ==
    LET f == tasks[t] IN
    /\ At(t, "zeroSlot")
    /\ f.i < MaskSlots
    /\ IF MaskBit(f.lcs, f.i)
         THEN IF f.k < Len(f.lc)
                THEN Set(t, [f EXCEPT !.sb = @ \o Sprintf09(f.lc[f.k + 1].ZERO),
                                      !.k = @ + 1, !.i = @ + 1])
                ELSE Set(t, [f EXCEPT !.pc = "panicked"])
         ELSE Set(t, [f EXCEPT !.sb = @ \o Sprintf09(0), !.i = @ + 1])
    /\ UNCHANGED <<bus, sessVars>>

(* the average closes the zeros payload *)
ZeroAverageSlot(t) ==
    LET f == tasks[t] IN
    /\ At(t, "zeroSlot")
    /\ f.i = MaskSlots
    /\ Set(t, [f EXCEPT !.sb = @ \o (IF Len(f.lc) = 0 THEN Append(ZeroPad(f.nan, 9), "|")
                                     ELSE Sprintf09(ZeroAverage(f.lc))),
                        !.pc = "factorSlot", !.i = 0, !.k = 0])
    /\ UNCHANGED <<bus, sessVars>>

(* one pass of the loop over ii that builds the factors payload *)
FactorSlot(t) ==
    LET f == tasks[t] IN
    /\ At(t, "factorSlot")
    /\ IF f.i < MaskSlots
         THEN IF MaskBit(f.lcs, f.i)
                THEN Set(t, [f EXCEPT !.sb2 = @ \o SprintfF10(f.lc[f.k + 1].FACTOR),
                                      !.k = @ + 1, !.i = @ + 1])
                ELSE Set(t, [f EXCEPT !.sb2 = @ \o FactorFiller, !.i = @ + 1])
         ELSE Set(t, Return(f, "nil", <<>>))
    /\ UNCHANGED <<bus, sessVars>>

(* a bar of a parameter set: any mask byte of four bits, the first n       *)
(* channel records                                                          *)
InitPayload ==
    /\ \E lcs \in 0..(2 ^ MaskSlots - 1), n \in 0..MaskSlots, nan \in NaNToUint64 :
         tasks = [t \in TaskIds |->
                    IF t = 1
                      THEN [IdleTask EXCEPT
                              !.kind = "payload", !.gen = 1, !.pc = "zeroSlot",
                              !.observed = TRUE, !.lcs = lcs,
                              !.lc = SubSeq(ChannelRecords, 1, n),
                              !.sb = <<"O">>, !.sb2 = <<"X">>, !.nan = nan]
                      ELSE IdleTask]
    /\ bus = [last |-> 0, max |-> 0]
    /\ dev = NoSession
    /\ cal = NoCal
    /\ started = 1
    /\ store = {}
    /\ ui = NoUi

NextPayload ==
    \/ ZeroSlot(1)
    \/ ZeroAverageSlot(1)
    \/ FactorSlot(1)

SpecPayload == InitPayload /\ [][NextPayload]_vars

(* ---- one SampleADCs call on arbitrary arguments and a scripted bus ---- *)

SampleBars == 2
SampleLCs == 2
MaxIgnoreTarget == 2
MaxAvgTarget == 3

InitSample ==
    /\ \E bars \in 0..SampleBars, nlcs \in 1..SampleLCs,
          ignoreTarget \in -1..MaxIgnoreTarget, avgTarget \in 0..MaxAvgTarget,
          onUpdate \in BOOLEAN, m \in Mocks :
         tasks = [t \in TaskIds |->
                    IF t = 1
                      THEN [IdleTask EXCEPT !.kind = "sample", !.gen = 1, !.pc = "sample",
                                            !.observed = TRUE,
                                            !.bars = bars, !.nlcs = nlcs,
                                            !.ignoreTarget = ignoreTarget,
                                            !.avg = avgTarget,
                                            !.notify = onUpdate, !.mock = m]
                      ELSE IdleTask]
    /\ bus = [last |-> 0, max |-> 0]
    /\ dev = NoSession
    /\ cal = NoCal
    /\ started = 1
    /\ store = {}
    /\ ui = NoUi

NextSample ==
    \/ SampleCall(1)
    \/ SampleLiveRead(1)
    \/ SampleIgnoreTop(1)
    \/ SampleIgnoreRead(1)
    \/ SampleAvgTop(1)
    \/ SampleAvgRead(1)
    \/ CtxCancel(1)

SpecSample == InitSample /\ [][NextSample]_vars

(* ======================================================================= *)
(* The terminal UI (cmd/modernui): model, Update, and the commands it runs  *)
(* ======================================================================= *)

(* contexts a program run may create, commands it may have in flight *)
MaxRuns == 2
MaxInflight == 1

(* len(steps) of BuildCalibrationPlan for the connected session *)
TuiPlan == PlanLen(2, 1)

Keys == {"enter", "1", "2", "3", "b", "z", "d", "ctrl+c"}

(* initialModel; sess: m.sess != nil; calSteps: len(m.calSteps); modeCtx   *)
(* and modeCancel: 0 is nil, else the number of the context; the text of   *)
(* lastErr and of the info line is left out                                *)
initialModel ==
    [scr |-> "entry", sess |-> FALSE, lastErr |-> FALSE,
     calSteps |-> 0, calStepIdx |-> 0, calAdv |-> FALSE, calAd0 |-> FALSE,
     calStatus |-> "idle", testStatus |-> "idle", testZeros |-> FALSE,
     testSnap |-> FALSE, flashStatus |-> "idle",
     modeCtx |-> 0, modeCancel |-> 0,
     calRunID |-> 0, testRunID |-> 0, flashRunID |-> 0]

(* what Update returns: the model, the commands to run, and the contexts   *)
(* it cancelled on the way                                                  *)
Ret(m, cmds, cancels) == [m |-> m, cmds |-> cmds, cancels |-> cancels]

(* a command closure: it holds the model it was made from (sess), the      *)
(* context and the run id it was given                                     *)
TeaCmd(name, m, ctx, runID, idx) ==
    [cmd |-> name, sess |-> m.sess, ctx |-> ctx, runID |-> runID, idx |-> idx]

ErrCmd(m) == TeaCmd("err", m, 0, 0, 0)

TeaMsg(type, runID, idx) == [type |-> type, runID |-> runID, idx |-> idx]

(* stopMode and the cancelling part of disconnect *)
stopMode(m) == [m EXCEPT !.modeCancel = 0, !.modeCtx = 0]

Cancelled(m) == IF m.modeCancel # 0 THEN {m.modeCancel} ELSE {}

disconnect(m) == [stopMode(m) EXCEPT !.sess = FALSE]

RunIDIgnored(msgRunID, current) == FALSE

(* msg.runID != m.calRunID (testRunID, flashRunID) *)
RunIDDiffers(msgRunID, current) == msgRunID # current

(* Update on a message that is not a key *)
UpdateMsg(m, msg) ==
    CASE msg.type = "err" ->
           Ret([m EXCEPT !.lastErr = TRUE,
                         !.calStatus = IF m.scr = "calibration" THEN "error" ELSE @,
                         !.testStatus = IF m.scr = "test" THEN "error" ELSE @,
                         !.flashStatus = IF m.scr = "flash" THEN "error" ELSE @],
               <<>>, {})
      [] msg.type = "connected" ->
           Ret([m EXCEPT !.sess = TRUE, !.lastErr = FALSE],
               <<>>, {})
      [] msg.type = "disconnected" ->
           Ret([m EXCEPT !.sess = FALSE], <<>>, {})
      [] msg.type = "calStepDone" ->
           IF RunIDDiffers(msg.runID, m.calRunID) THEN Ret(m, <<>>, {})
           ELSE IF ~m.sess THEN Ret(m, <<ErrCmd(m)>>, {})
           ELSE LET m1 == IF msg.idx = 0
                            THEN [m EXCEPT !.calAd0 = TRUE, !.calSteps = TuiPlan,
                                           !.calAdv = TRUE]
                            ELSE m
                    m2 == [m1 EXCEPT !.calStepIdx = @ + 1] IN
                IF m2.calStepIdx >= m2.calSteps
                  THEN LET m3 == [m2 EXCEPT !.calStatus = "running"] IN
                       Ret(m3, <<TeaCmd("computeAndFlash", m3, m3.modeCtx, m3.calRunID, 0)>>, {})
                  ELSE Ret([m2 EXCEPT !.calStatus = "idle"], <<>>, {})
      [] msg.type = "calFlashDone" ->
           IF RunIDDiffers(msg.runID, m.calRunID) THEN Ret(m, <<>>, {})
           ELSE Ret([m EXCEPT !.calStatus = "done", !.scr = "entry"], <<>>, {})
      [] msg.type = "testZerosDone" ->
           IF RunIDDiffers(msg.runID, m.testRunID) THEN Ret(m, <<>>, {})
           ELSE LET m1 == [m EXCEPT !.testZeros = TRUE, !.testStatus = "running"] IN
                Ret(m1, <<TeaCmd("tick", m1, m1.modeCtx, m1.testRunID, 0)>>, {})
      [] msg.type = "testSnap" ->
           IF RunIDDiffers(msg.runID, m.testRunID) \/ m.scr # "test" THEN Ret(m, <<>>, {})
           ELSE LET m1 == [m EXCEPT !.testSnap = TRUE] IN
                Ret(m1, <<TeaCmd("tick", m1, m1.modeCtx, m1.testRunID, 0)>>, {})
      [] msg.type = "flashDone" ->
           IF RunIDDiffers(msg.runID, m.flashRunID) THEN Ret(m, <<>>, {})
           ELSE Ret([m EXCEPT !.flashStatus = "done", !.scr = "entry"], <<>>, {})
      [] OTHER -> Ret(m, <<>>, {})

(* a mode is entered: the old context is cancelled, context n is created *)
EnterMode(m, n) == [stopMode(m) EXCEPT !.modeCtx = n, !.modeCancel = n]

updateEntryKey(m, k, n) ==
    CASE k = "enter" ->
           IF ~m.sess THEN Ret(m, <<TeaCmd("connect", m, 0, 0, 0)>>, {}) ELSE Ret(m, <<>>, {})
      [] k = "1" ->
           IF ~m.sess THEN Ret(m, <<>>, {})
           ELSE Ret([EnterMode(m, n) EXCEPT
                       !.calRunID = @ + 1, !.scr = "calibration", !.calStatus = "idle",
                       !.calStepIdx = 0, !.calAd0 = FALSE, !.calAdv = FALSE,
                       !.calSteps = TuiPlan],
                    <<>>, Cancelled(m))
      [] k = "2" ->
           IF ~m.sess THEN Ret(m, <<>>, {})
           ELSE Ret([EnterMode(m, n) EXCEPT
                       !.testRunID = @ + 1, !.scr = "test", !.testStatus = "idle",
                       !.testSnap = FALSE, !.testZeros = FALSE],
                    <<>>, Cancelled(m))
      [] k = "3" ->
           IF ~m.sess THEN Ret(m, <<>>, {})
           ELSE Ret([EnterMode(m, n) EXCEPT
                       !.flashRunID = @ + 1, !.scr = "flash", !.flashStatus = "idle"],
                    <<>>, Cancelled(m))
      [] k = "d" ->
           Ret(disconnect(m), <<TeaCmd("disconnected", disconnect(m), 0, 0, 0)>>, Cancelled(m))
      [] OTHER -> Ret(m, <<>>, {})

updateCalibrationKey(m, k) ==
    CASE k = "b" ->
           Ret([stopMode(m) EXCEPT !.calRunID = @ + 1, !.scr = "entry",
                                   !.calStatus = "idle"], <<>>, Cancelled(m))
      [] k = "enter" ->
           IF m.calStatus = "running" THEN Ret(m, <<>>, {})
           ELSE IF ~m.sess THEN Ret(m, <<ErrCmd(m)>>, {})
           ELSE IF m.calStepIdx >= m.calSteps THEN Ret(m, <<>>, {})
           ELSE LET m1 == [m EXCEPT !.calStatus = "running"] IN
                Ret(m1, <<TeaCmd("runCalibrationStep", m1, m1.modeCtx, m1.calRunID,
                                 m1.calStepIdx)>>, {})
      [] OTHER -> Ret(m, <<>>, {})

updateTestKey(m, k, n) ==
    CASE k = "b" ->
           Ret([stopMode(m) EXCEPT !.testRunID = @ + 1, !.scr = "entry",
                                   !.testStatus = "idle"], <<>>, Cancelled(m))
      [] k = "enter" ->
           IF m.testStatus = "running" THEN Ret(m, <<>>, {})
           ELSE IF ~m.sess THEN Ret(m, <<ErrCmd(m)>>, {})
           ELSE LET m1 == [m EXCEPT !.testStatus = "running"] IN
                Ret(m1, <<TeaCmd("startTestMode", m1, m1.modeCtx, m1.testRunID, 0)>>, {})
      [] k = "z" ->
           IF m.testStatus # "running" \/ ~m.sess THEN Ret(m, <<>>, {})
           ELSE LET m1 == [EnterMode(m, n) EXCEPT !.testRunID = @ + 1,
                                                  !.testSnap = FALSE,
                                                  !.testStatus = "running"] IN
                Ret(m1, <<TeaCmd("collectZeros", m1, m1.modeCtx, m1.testRunID, 0)>>,
                    Cancelled(m))
      [] OTHER -> Ret(m, <<>>, {})

updateFlashKey(m, k) ==
    CASE k = "b" ->
           Ret([stopMode(m) EXCEPT !.flashRunID = @ + 1, !.scr = "entry",
                                   !.flashStatus = "idle"], <<>>, Cancelled(m))
      [] k = "enter" ->
           IF m.flashStatus = "running" THEN Ret(m, <<>>, {})
           ELSE IF ~m.sess THEN Ret(m, <<ErrCmd(m)>>, {})
           ELSE LET m1 == [m EXCEPT !.flashStatus = "running"] IN
                Ret(m1, <<TeaCmd("flashFromFile", m1, m1.modeCtx, m1.flashRunID, 0)>>, {})
      [] OTHER -> Ret(m, <<>>, {})

(* Update on a key: ctrl+c first, then the handler of the screen *)
UpdateKeyMsg(m, k, n) ==
    IF k = "ctrl+c" THEN Ret(disconnect(m), <<TeaCmd("quit", m, 0, 0, 0)>>, Cancelled(m))
    ELSE CASE m.scr = "entry" -> updateEntryKey(m, k, n)
           [] m.scr = "calibration" -> updateCalibrationKey(m, k)
           [] m.scr = "test" -> updateTestKey(m, k, n)
           [] m.scr = "flash" -> updateFlashKey(m, k)

(* the messages command c can return: the calls it makes may fail, and a   *)
(* cancel may come before or after the command looks at its context        *)
CmdResults(c, done) ==
    LET err == TeaMsg("err", 0, 0)
        unready == ~c.sess \/ c.ctx = 0 IN
    CASE c.cmd = "err" -> {err}
      [] c.cmd = "connect" -> {TeaMsg("connected", 0, 0), err}
      [] c.cmd = "disconnected" -> {TeaMsg("disconnected", 0, 0)}
      [] c.cmd = "runCalibrationStep" ->
           IF unready THEN {err} ELSE {TeaMsg("calStepDone", c.runID, c.idx), err}
      [] c.cmd = "computeAndFlash" ->
           IF unready THEN {err} ELSE {TeaMsg("calFlashDone", c.runID, 0), err}
      [] c.cmd \in {"startTestMode", "collectZeros"} ->
           IF unready THEN {err} ELSE {TeaMsg("testZerosDone", c.runID, 0), err}
      [] c.cmd = "tick" ->
           IF c.ctx = 0 THEN {TeaMsg("testPollStopped", c.runID, 0)}
           ELSE (IF c.ctx \in done THEN {TeaMsg("testPollStopped", c.runID, 0)} ELSE {})
                  \cup (IF ~c.sess THEN {err} ELSE {TeaMsg("testSnap", c.runID, 0), err})
      [] c.cmd = "flashFromFile" ->
           IF unready THEN {err} ELSE {TeaMsg("flashDone", c.runID, 0), err}

(* View: the calibration screen indexes m.calSteps[m.calStepIdx] *)
ViewPanics(m) ==
    m.scr = "calibration" /\ m.sess /\ m.calSteps # 0 /\ m.calStepIdx >= m.calSteps

(* the program applies what Update returned (one command at most) and     *)
(* draws the model; the commands in flight are a bag                       *)
Applied(r, inflight) ==
    [m |-> r.m,
     inflight |-> IF r.cmds = <<>> \/ r.cmds[1].cmd = "quit" THEN inflight
                  ELSE inflight (+) SetToBag({r.cmds[1]}),
     nctx |-> IF r.m.modeCtx > ui.nctx THEN r.m.modeCtx ELSE ui.nctx,
     done |-> ui.done \cup r.cancels,
     state |-> IF \E n \in 1..Len(r.cmds) : r.cmds[n].cmd = "quit" THEN "quit"
               ELSE IF ViewPanics(r.m) THEN "panicked" ELSE "running"]

(* a key arrives *)
TuiKey(k) ==
    LET r == UpdateKeyMsg(ui.m, k, ui.nctx + 1) IN
    /\ ui.state = "running"
    /\ r.m.modeCtx <= MaxRuns
    /\ BagCardinality(ui.inflight) + Len(r.cmds) <= MaxInflight
    /\ ui' = Applied(r, ui.inflight)
    /\ UNCHANGED <<tasks, bus, dev, cal, started, store>>

(* a command in flight returns its message *)
TuiMsg ==
    /\ ui.state = "running"
    /\ \E c \in BagToSet(ui.inflight) : \E msg \in CmdResults(c, ui.done) :
         LET r == UpdateMsg(ui.m, msg) IN
         ui' = Applied(r, ui.inflight (-) SetToBag({c}))
    /\ UNCHANGED <<tasks, bus, dev, cal, started, store>>

InitTui ==
    /\ tasks = [t \in TaskIds |-> IdleTask]
    /\ bus = [last |-> 0, max |-> 0]
    /\ dev = NoSession
    /\ cal = NoCal
    /\ started = 0
    /\ store = {}
    /\ ui = [m |-> initialModel, inflight |-> EmptyBag, nctx |-> 0, done |-> {},
             state |-> "running"]

NextTui ==
    \/ \E k \in Keys : TuiKey(k)
    \/ TuiMsg

SpecTui == InitTui /\ [][NextTui]_vars

(* ======================================================================= *)
(* The key events of the command-line programs (ui/keypress_nonwindows.go)  *)
(* ======================================================================= *)

(* capacity of the key channel (64 in the source), keys the user presses,  *)
(* calls of DrainKeys                                                       *)
KeyChCap == 2
MaxKeys == 3
MaxDrains == 2

(* before the first StartKeyEvents: no channel, no reader *)
NoKeys ==
    [once |-> FALSE, reader |-> "none", ch |-> <<>>, chClosed |-> FALSE,
     keys |-> 0, drain |-> "idle", calls |-> 0]

(* startOnceNW.Do: the channel is made; the reader goroutine starts when   *)
(* the keyboard opens                                                       *)
StartKeyEvents(u, opened) ==
    IF u.once THEN u
    ELSE [u EXCEPT !.once = TRUE, !.reader = IF opened THEN "running" ELSE "none"]

(* select { case ch <- r: default: }: a full channel drops the key *)
Send(ch, r) == IF Len(ch) < KeyChCap THEN Append(ch, r) ELSE ch

(* a caller other than DrainKeys starts the key events *)
StartKeyEventsCall ==
    /\ ~ui.once
    /\ \E opened \in BOOLEAN : ui' = StartKeyEvents(ui, opened)
    /\ UNCHANGED <<tasks, bus, dev, cal, started, store>>

(* the reader goroutine: one GetKey *)
ReaderGetKey ==
    /\ ui.reader = "running"
    /\ \/ /\ ui.keys < MaxKeys
          /\ \E key \in {"char", "esc", "other"} :
               ui' = [ui EXCEPT !.keys = @ + 1,
                                !.ch = CASE key = "char" -> Send(@, "c")
                                         [] key = "esc" -> Send(@, "27")
                                         [] OTHER -> @]
       \/ ui' = [ui EXCEPT !.chClosed = TRUE, !.reader = "exited"]
    /\ UNCHANGED <<tasks, bus, dev, cal, started, store>>

(* DrainKeys is called: ch := StartKeyEvents() *)
DrainKeysCall ==
    /\ ui.drain # "select"
    /\ ui.calls < MaxDrains
    /\ \E opened \in BOOLEAN :
         ui' = [StartKeyEvents(ui, opened) EXCEPT !.drain = "select", !.calls = @ + 1]
    /\ UNCHANGED <<tasks, bus, dev, cal, started, store>>

(* case <-ch is ready: a key is buffered, or the channel is closed *)
ReceiveReady(u) == u.ch # <<>> \/ u.chClosed

(* one pass of the loop of DrainKeys: receive when ready, else return; a   *)
(* receive from the closed and empty channel leaves every variable as it   *)
(* is, and the loop takes its next pass                                    *)
DrainKeysSelect ==
    /\ ui.drain = "select"
    /\ IF ReceiveReady(ui)
         THEN ui' = [ui EXCEPT !.ch = IF @ = <<>> THEN @ ELSE Tail(@)]
         ELSE ui' = [ui EXCEPT !.drain = "returned"]
    /\ UNCHANGED <<tasks, bus, dev, cal, started, store>>

InitKeys ==
    /\ tasks = [t \in TaskIds |-> IdleTask]
    /\ bus = [last |-> 0, max |-> 0]
    /\ dev = NoSession
    /\ cal = NoCal
    /\ started = 0
    /\ store = {}
    /\ ui = NoKeys

NextKeys ==
    \/ StartKeyEventsCall
    \/ ReaderGetKey
    \/ DrainKeysCall
    \/ DrainKeysSelect

(* the caller of DrainKeys keeps running *)
SpecKeys == InitKeys /\ [][NextKeys]_vars /\ WF_vars(DrainKeysSelect)

(* ======================================================================= *)
(* Properties                                                              *)
(* ======================================================================= *)

Range(s) == {s[j] : j \in 1..Len(s)}
Idx(n) == 0..(n - 1)
(* the step is a step of task t itself (not a cancellation by a handler) *)
TaskStepped(t) ==
    /\ tasks'[t] # tasks[t]
    /\ tasks'[t].gen = tasks[t].gen
    /\ tasks'[t].ctxDone = tasks[t].ctxDone

(* C3 (as amended): a payload never gets more than 3 attempts; when the    *)
(* 3 attempts of a bar's zero (factor) payload have all failed the flash   *)
(* has failed with that bar's write error, and the reboot that follows a   *)
(* bar's payloads has not been sent to that bar.                           *)
C3_WriteExhaustion ==
    \A t \in TaskIds : \A b \in BarIdx :
      LET f == tasks[t] IN
      /\ f.zeroAttempts[b] <= 3 /\ f.facAttempts[b] <= 3
      /\ (f.zeroAttempts[b] = 3 /\ b \notin f.zeroDone) =>
            /\ f.result = "cannot flash zeros" /\ f.errInfo = <<b + 1>>
            /\ f.facAttempts[b] = 0 /\ b \notin f.payloadReboots
      /\ (f.result = "cannot flash zeros" /\ f.errInfo = <<b + 1>>) =>
            f.zeroAttempts[b] = 3 /\ b \notin f.zeroDone
      /\ (f.facAttempts[b] = 3 /\ b \notin f.facDone) =>
            /\ f.result = "cannot flash factors" /\ f.errInfo = <<b + 1>>
            /\ b \notin f.payloadReboots
      /\ (f.result = "cannot flash factors" /\ f.errInfo = <<b + 1>>) =>
            f.facAttempts[b] = 3 /\ b \notin f.facDone

(* C3 witness: a flash that went through the recovery reboots and then     *)
(* failed on the zero payload of a bar                                     *)
C3_Witness ==
    \E t \in TaskIds :
      /\ tasks[t].result = "cannot flash zeros"
      /\ tasks[t].recoveryReboots # <<>>

(* C3 as originally stated: when a bar's payload write is exhausted no     *)
(* reboot at all has been sent to that bar during the run                  *)
C3_NoRebootAtAll ==
    \A t \in TaskIds : \A b \in BarIdx :
      LET f == tasks[t] IN
      (f.result \in {"cannot flash zeros", "cannot flash factors"} /\ f.errInfo = <<b + 1>>) =>
          b \notin f.payloadReboots /\ b \notin Range(f.recoveryReboots)

(* C4: a zero or factor payload write is issued only when every bar index  *)
(* has acknowledged the addressed challenge (the pending set is empty);    *)
(* the pending set is a subset of the bar indices and only shrinks.        *)
C4_PendingInv ==
    \A t \in TaskIds :
      LET f == tasks[t] IN
      /\ Range(f.notReady) \subseteq Idx(Len(f.p))
      /\ (f.pc \in {"zero", "fac"} \/ \E b \in BarIdx : f.zeroAttempts[b] + f.facAttempts[b] > 0) =>
            f.acked = Idx(Len(f.p))
      /\ f.pc \in {"zero", "fac"} => f.notReady = <<>>

C4_PendingStep ==
    \A t \in TaskIds :
      tasks[t].pc \notin {"open", "retry"} =>
          Range(tasks'[t].notReady) \subseteq Range(tasks[t].notReady)

C4_WritesOnlyWhenAllAcked == [](C4_PendingInv) /\ [][C4_PendingStep]_vars

(* C4 witness: the zero payload of the second bar is being written *)
C4_Witness ==
    \E t \in TaskIds : tasks[t].pc = "zero" /\ tasks[t].i = 1

(* C5: after a failed first broadcast every bar of the session is rebooted *)
(* in index order and the broadcast is retried exactly once; a failed      *)
(* retry ends the flash with an error carrying both errors, and no probe   *)
(* or payload write was issued.                                            *)
C5_Recovery ==
    \A t \in TaskIds :
      LET f == tasks[t]
          r == f.broadcastResps IN
      /\ Len(r) <= 2
      /\ Len(f.recoveryReboots) <= f.bars
      /\ \A j \in 1..Len(f.recoveryReboots) : f.recoveryReboots[j] = j - 1
      /\ (Len(r) >= 1 /\ r[1] = "Enter") => Len(r) = 1 /\ f.recoveryReboots = <<>>
      /\ (Len(r) >= 1 /\ r[1] # "Enter") =>
            /\ f.pc # "recover" => Len(f.recoveryReboots) = f.bars
            /\ f.pc = "recover" => Len(r) = 1 /\ Len(f.recoveryReboots) = f.i
            /\ f.pc = "retry" => Len(r) = 1
            /\ f.pc \notin {"recover", "retry"} => Len(r) = 2
      /\ (Len(r) = 2 /\ r[2] # "Enter") =>
            /\ f.pc = "returned" /\ f.result = "cannot enter update mode"
            /\ Len(f.errInfo) = 2 /\ f.errInfo[1] # "nil" /\ f.errInfo[2] # "nil"
            /\ f.probed = {} /\ f.payloadReboots = {}
            /\ \A b \in BarIdx : f.zeroAttempts[b] = 0 /\ f.facAttempts[b] = 0
      /\ f.result = "cannot enter update mode" => Len(r) = 2 /\ r[1] # "Enter" /\ r[2] # "Enter"

(* C5 witness: both broadcasts failed on a session of two bars *)
C5_Witness ==
    \E t \in TaskIds :
      /\ tasks[t].result = "cannot enter update mode"
      /\ tasks[t].recoveryReboots = <<0, 1>>

(* C6: the handshake runs at most 6 rounds; a round probes only bars that  *)
(* have not yet answered "Enter"; the pending set is exactly the set of    *)
(* bars that have not answered "Enter"; after round 6 a non-empty pending  *)
(* set fails the flash, which reports exactly those indices.               *)
C6_HandshakeInv ==
    \A t \in TaskIds :
      LET f == tasks[t] IN
      /\ f.pc = "probe" => f.attempt <= 6
      /\ f.pc = "round" => /\ f.attempt <= 7
                           /\ Range(f.notReady) = Idx(Len(f.p)) \ f.acked
      /\ f.pc = "probe" =>
            Range(f.remaining) \cup {f.notReady[j] : j \in f.k..Len(f.notReady)}
               = Idx(Len(f.p)) \ f.acked
      /\ f.result = "not all bars entered update mode" =>
            /\ Range(f.errInfo) = Idx(Len(f.p)) \ f.acked
            /\ f.errInfo # <<>>

C6_HandshakeStep ==
    \A t \in TaskIds :
      LET f == tasks[t] IN
      /\ (f.pc = "probe" /\ TaskStepped(t)) =>
            /\ tasks'[t].lastCmd.kind = "probe"
            /\ tasks'[t].lastCmd.bar \notin f.acked
      /\ (f.pc = "round" /\ tasks'[t].result = "not all bars entered update mode") =>
            f.attempt = 7

C6_Handshake == [](C6_HandshakeInv) /\ [][C6_HandshakeStep]_vars

(* C6 witness: after 6 rounds one of two bars has answered, the other not *)
C6_Witness ==
    \E t \in TaskIds :
      /\ tasks[t].result = "not all bars entered update mode"
      /\ tasks[t].acked = {0}

(* C7: per bar the zero write succeeds before any factor write, the factor *)
(* write succeeds before the bar's reboot, no payload command goes to bar  *)
(* i+1 before bar i was rebooted, the stages are reported in order and     *)
(* 'done' comes only after the last bar's reboot.                          *)
StageFollows(a, b) ==
    \/ a.Stage = "enter_update" /\ b = Ev("zeros", 0)
    \/ a.Stage = "zeros" /\ b = Ev("factors", a.BarIndex)
    \/ a.Stage = "factors" /\ b = Ev("reboot", a.BarIndex)
    \/ a.Stage = "reboot" /\ b = Ev("zeros", a.BarIndex + 1)
    \/ a.Stage = "reboot" /\ b = Ev("done", -1)

C7_PayloadOrder ==
    \A t \in TaskIds :
      LET f == tasks[t] IN
      /\ \A b \in BarIdx :
           /\ f.facAttempts[b] > 0 => b \in f.zeroDone
           /\ b \in f.payloadReboots => b \in f.facDone
           /\ b \in f.zeroDone => f.zeroAttempts[b] > 0
           /\ b \in f.facDone => f.facAttempts[b] > 0
           /\ (f.zeroAttempts[b] > 0 /\ b > 0) => (b - 1) \in f.payloadReboots
      /\ f.events # <<>> => f.events[1] = Ev("enter_update", -1)
      /\ \A j \in 1..(Len(f.events) - 1) : StageFollows(f.events[j], f.events[j + 1])
      /\ (\E j \in 1..Len(f.events) : f.events[j].Stage = "done") =>
            /\ f.payloadReboots = Idx(Len(f.p))
            /\ f.events[Len(f.events)].Stage = "done"
            /\ f.result = "nil"

(* C7 witness: a flash of two bars has reported 'done' *)
C7_Witness ==
    \E t \in TaskIds :
      /\ tasks[t].result = "nil"
      /\ Len(tasks[t].p) = 2
      /\ tasks[t].events # <<>>
      /\ tasks[t].events[Len(tasks[t].events)].Stage = "done"

(* C8: when the first bar of the parameters has no channel records         *)
(* FlashParameters returns an error, having issued no bus command and      *)
(* emitted no progress event.                                              *)
C8_EmptyFirstBar ==
    \A t \in TaskIds :
      LET f == tasks[t] IN
      (f.kind = "flash" /\ f.pc # "call" /\ f.bars > 0 /\ Len(f.p) > 0 /\ f.p[1].LC = 0) =>
          /\ f.pc = "returned"
          /\ f.result = "no calibration factors present"
          /\ f.lastCmd = NoCmd
          /\ f.events = <<>>
          /\ bus.last # f.gen

(* C8 witness: the call has returned the error for a set of two bars *)
C8_Witness ==
    \E t \in TaskIds :
      /\ tasks[t].result = "no calibration factors present"
      /\ Len(tasks[t].p) = 2

(* C9: every loop of FlashParameters checks cancellation at the top of     *)
(* each iteration: once the context is cancelled no loop iteration         *)
(* (recovery reboot, handshake round, per-bar step, write attempt) starts. *)
IterationStarts(t) ==
    \/ tasks[t].pc \in {"recover", "zero", "fac"} /\ TaskStepped(t)
    \/ tasks[t].pc = "round" /\ tasks'[t].pc = "probe"
    \/ tasks[t].pc = "bar" /\ tasks'[t].pc \in {"zero", "panicked"}

C9_NoIterationAfterCancel ==
    [][\A t \in TaskIds : tasks[t].ctxDone => ~IterationStarts(t)]_vars

(* C1: once a task started later has put a command on the bus, no task    *)
(* started before it puts another one: the commands of two operations are  *)
(* never interleaved (bus.last = 0: the last command was a handler's own). *)
C1_NoInterleaving == bus.last = 0 \/ bus.last >= bus.max

(* C2: at most one background task of the session has started and not yet  *)
(* terminated.                                                             *)
C2_AtMostOneRunning == Cardinality({t \in TaskIds : Running(t)}) <= 1

(* C10: the coefficient computation has run only on an accumulator in      *)
(* which every step of the plan had been reported exactly once since the   *)
(* last reset.                                                             *)
C10_ComputeOnCompletePlan ==
    cal.computedOn # <<>> =>
        \A x \in 0..(cal.calSteps - 1) : cal.computedOn[x] = 1

(* C11: once the plan is complete and the coefficients were computed, a   *)
(* late or duplicate step report leaves the accumulator as the computation *)
(* found it: the received count still equals the plan length and no step   *)
(* has been accumulated again.                                             *)
C11_LateReportNoOp ==
    cal.computedOn # <<>> =>
        /\ cal.calReceived = cal.calSteps
        /\ cal.reported = cal.computedOn


(* ---- SampleADCs ---- *)

(* SampleADCs has returned its flat vector and a nil error *)
SampleReturned(f) == f.kind = "sample" /\ f.pc = "acc"

(* the read cycles made before the ignore phase: the initial live one *)
LiveCycles(f) == IF f.notify THEN 1 ELSE 0

(* what the scripted bus gives channel lc of bar i over the cycles lo..hi *)
RECURSIVE MockSum(_, _, _, _, _, _)
MockSum(m, lo, hi, i, lc, nlcs) ==
    IF lo > hi THEN 0
    ELSE Row(MockRead(m, lo, i, nlcs), nlcs)[lc + 1] + MockSum(m, lo + 1, hi, i, lc, nlcs)

(* the sum of the averaging cycles for entry x (from 0) of the flat vector *)
AveragedSum(f, x) ==
    MockSum(f.mock, LiveCycles(f) + f.ignoreTarget + 1,
            LiveCycles(f) + f.ignoreTarget + f.avg, x \div f.nlcs, x % f.nlcs, f.nlcs)

SampleResultIsQuotient(f) ==
    /\ Len(f.flat) = f.bars * f.nlcs
    /\ \A x \in Idx(f.bars * f.nlcs) : f.flat[x + 1] = AveragedSum(f, x) \div f.avg

CompletedCycles(f) == IF f.pc \in {"live", "ignRead", "avgRead"} THEN f.cycle - 1 ELSE f.cycle

(* the sum over the cycles lo..hi of channel lc of bar i, a failed read    *)
(* taken as 0                                                              *)
RECURSIVE ZeroedSum(_, _, _, _, _)
ZeroedSum(m, lo, hi, i, lc) ==
    IF lo > hi THEN 0
    ELSE (IF Hit(m, lo, i) THEN 0 ELSE MockValue(m, lo, i, lc))
         + ZeroedSum(m, lo + 1, hi, i, lc)

QuietFails == {"empty", "garbled"}

(* C28: a read whose response is empty or does not parse gives an empty    *)
(* reading and no error; SampleADCs takes every channel of that bar as 0   *)
(* in that tick, counts the tick like any other, and goes on: it returns   *)
(* no error of its own, and its result is the quotient of the sums with    *)
(* those reads at 0 by averageCount.                                       *)
C28_QuietReadIsZero ==
    LET f == tasks[1]
        first == LiveCycles(f) + f.ignoreTarget + 1 IN
    f.kind = "sample" /\ f.mock.fail \in QuietFails =>
        /\ \A c \in 1..f.cycle, i \in Idx(f.bars) :
              Hit(f.mock, c, i) =>
                  MockRead(f.mock, c, i, f.nlcs) = [err |-> FALSE, bruts |-> <<>>]
        /\ f.pc = "returned" =>
              f.result \in {"canceled", "bars not connected", "avgTarget must be > 0"}
        /\ CompletedCycles(f) - (f.ignored + f.summed) \in {0, LiveCycles(f)}
        /\ SampleReturned(f) =>
              /\ f.ignored = f.ignoreTarget /\ f.summed = f.avg
              /\ \A x \in Idx(f.bars * f.nlcs) :
                    f.flat[x + 1] =
                        ZeroedSum(f.mock, first, first + f.avg - 1,
                                  x \div f.nlcs, x % f.nlcs) \div f.avg

(* a call returned whose reads were unparsable every other time, in the    *)
(* discarded and in the averaged cycles, on a bus of non-zero values       *)
C28_Witness ==
    LET f == tasks[1] IN
    /\ SampleReturned(f) /\ f.mock.fail = "garbled" /\ f.mock.kind = "const"
    /\ f.mock.v = 1 /\ f.bars = 2 /\ f.ignoreTarget >= 1 /\ f.avg >= 2
    /\ \E x \in Idx(f.bars * f.nlcs) : f.flat[x + 1] = 0


(* C13: once cancellation has been signalled, SampleADCs begins no further *)
(* read cycle (the very first one included): it reads no bar again, hands  *)
(* out no averaged vector and makes no 'finished' callback.                *)
C13_NoReadAfterCancel ==
    [][tasks[1].kind = "sample" /\ tasks[1].ctxDone =>
         /\ tasks'[1].cycle = tasks[1].cycle
         /\ tasks'[1].flat = <<>>
         /\ \A j \in 1..Len(tasks'[1].updates) : tasks'[1].updates[j].Phase # "finished"]_vars


(* C14: when every read of the bus gives the same raw value v on every     *)
(* channel, a successful SampleADCs call returns exactly v for every       *)
(* (bar, channel), whatever ignoreCount >= 0 and averageCount >= 1 are.    *)
C14_ConstantBus ==
    LET f == tasks[1] IN
    SampleReturned(f) /\ f.mock.kind = "const" /\ f.mock.fail = "none" =>
        /\ Len(f.flat) = f.bars * f.nlcs
        /\ \A x \in 1..Len(f.flat) : f.flat[x] = f.mock.v

(* ignoreCount 2 and averageCount 3 on two bars of two channels that all   *)
(* read 1                                                                  *)
C14_Witness ==
    LET f == tasks[1] IN
    /\ SampleReturned(f) /\ f.mock.kind = "const" /\ f.mock.fail = "none"
    /\ f.mock.v = 1 /\ f.ignoreTarget = 2 /\ f.avg = 3 /\ f.bars = 2 /\ f.nlcs = 2
    /\ f.ignored = 2 /\ f.summed = 3

PhaseRank(phase) ==
    CASE phase = "live" -> 0
      [] phase = "ignoring" -> 1
      [] phase = "averaging" -> 2
      [] OTHER -> 3

(* C15: with a progress callback, the callbacks come in the phase order    *)
(* live, ignoring, averaging, finished; every tick (completed read cycle)  *)
(* makes a callback; IgnoreDone rises by one per ignore tick up to         *)
(* IgnoreTarget and AvgDone by one per averaging tick up to AvgTarget; a   *)
(* successful call makes exactly one 'finished' callback, the last one,    *)
(* with the averages of the returned flat vector.                          *)
C15_Callbacks ==
    LET f == tasks[1]
        u == f.updates
        ticks == {j \in 1..Len(u) : u[j].Phase # "finished"}
        fin == {j \in 1..Len(u) : u[j].Phase = "finished"} IN
    f.kind = "sample" /\ f.notify =>
        /\ \A j \in 1..(Len(u) - 1) :
              /\ PhaseRank(u[j].Phase) <= PhaseRank(u[j + 1].Phase)
              /\ u[j + 1].Phase = "ignoring" =>
                    u[j + 1].IgnoreDone = (IF u[j].Phase = "ignoring"
                                             THEN u[j].IgnoreDone + 1 ELSE 1)
              /\ u[j + 1].Phase = "averaging" =>
                    u[j + 1].AvgDone = (IF u[j].Phase = "averaging"
                                          THEN u[j].AvgDone + 1 ELSE 1)
        /\ \A j \in 1..Len(u) :
              /\ u[j].Phase \in {"live", "ignoring", "averaging", "finished"}
              /\ u[j].IgnoreDone <= f.ignoreTarget /\ u[j].AvgDone <= f.avg
              /\ u[j].Phase = "live" => j = 1
        /\ Cardinality(ticks) = CompletedCycles(f)
        /\ fin = (IF SampleReturned(f) THEN {Len(u)} ELSE {})
        /\ SampleReturned(f) =>
              /\ Len(u) = 1 + f.ignoreTarget + f.avg + 1
              /\ u[Len(u)].IgnoreDone = f.ignoreTarget /\ u[Len(u)].AvgDone = f.avg
              /\ Flat(u[Len(u)].Final, f.bars, f.nlcs) = f.flat

(* a successful call with two ignore ticks and three averaging ticks whose *)
(* 'finished' callback carries an average that is not zero                 *)
C15_Witness ==
    LET f == tasks[1] IN
    /\ SampleReturned(f) /\ f.notify
    /\ f.ignoreTarget = 2 /\ f.avg = 3 /\ f.bars = 2
    /\ Len(f.updates) = 7
    /\ f.updates[7].Phase = "finished"
    /\ \E x \in 1..Len(f.flat) : f.flat[x] # 0


(* ---- BuildCalibrationPlan ---- *)

(* BuildCalibrationPlan has returned a plan and a nil error *)
PlanReturned(f) == f.kind = "plan" /\ f.pc = "returned" /\ f.result = "nil"

(* C16: for every bar count >= 1 and NLCs >= 1 BuildCalibrationPlan        *)
(* returns 1 + 3*(barCount-1)*NLCs steps and N = 3*(barCount-1)*NLCs;      *)
(* step 0 is the Zero step and step k (1 <= k <= N) is a Weight step with  *)
(* placement index k-1.                                                    *)
C16_PlanShape ==
    LET f == tasks[1]
        N == 3 * (f.bars - 1) * f.nlcs IN
    /\ f.kind = "plan" /\ f.pc = "returned" /\ ~f.pNil /\ f.bars >= 1 /\ f.nlcs >= 1 =>
          f.result = "nil"
    /\ PlanReturned(f) =>
          /\ f.nloads = N
          /\ Len(f.steps) = 1 + N
          /\ f.steps[1].Kind = "zero"
          /\ \A k \in 1..N : f.steps[k + 1].Kind = "weight" /\ f.steps[k + 1].Index = k - 1

(* a plan for 3 bars of 2 channels: 13 steps, the last with index 11 *)
C16_Witness ==
    LET f == tasks[1] IN
    /\ PlanReturned(f) /\ f.bars = 3 /\ f.nlcs = 2
    /\ Len(f.steps) = 13 /\ f.steps[13].Index = 11

Placement(st) == <<st.Bay, st.Side, st.FB>>

(* C17: the placements (bay, side, frontBack) of the weight steps of a     *)
(* plan are pairwise different and every placement of a bay in use (3      *)
(* sides, front and back) belongs to a weight step.                        *)
C17_PlacementsCovered ==
    LET f == tasks[1]
        W == {k \in 2..Len(f.steps) : f.steps[k].Kind = "weight"}
        bays == {f.steps[k].Bay : k \in W} IN
    PlanReturned(f) =>
        /\ \A a, b \in W : Placement(f.steps[a]) = Placement(f.steps[b]) => a = b
        /\ \A bay \in bays, side \in 0..2, fb \in 0..1 :
              \E k \in W : Placement(f.steps[k]) = <<bay, side, fb>>


(* ---- connect ---- *)

ActiveCountsDiffer(lcs) ==
    \E a, b \in 1..Len(lcs) : countActiveLCs(lcs[a]) # countActiveLCs(lcs[b])

(* C18: in a connected session every bar has the same number of set mask   *)
(* bits, the session's NLCs, which is at least 1; after a connect on a bar  *)
(* list whose masks disagree the port it opened is closed and there is no   *)
(* session.                                                                 *)
C18_SameActiveCount ==
    /\ dev.bars # 0 =>
          /\ dev.nlcs >= 1
          /\ \A b \in 1..Len(dev.lcs) : countActiveLCs(dev.lcs[b]) = dev.nlcs
    /\ dev.tried # <<>> /\ ActiveCountsDiffer(dev.tried) =>
          dev.bars = 0 /\ dev.open = 0

(* C19: a connected session holds a handle on which the version probe of   *)
(* bar 0 succeeded; when there is no session (the probe failed, say) no     *)
(* port is left open.                                                       *)
C19_ProbedBeforeConnected ==
    /\ dev.bars # 0 => dev.probed /\ dev.open = 1
    /\ dev.bars = 0 => ~dev.probed /\ dev.open = 0 /\ dev.lcs = <<>> /\ dev.configID = 0

(* a connect request opened the port of a well-formed bar list and left no *)
(* session: the probe failed                                               *)
C19_Witness ==
    /\ dev.bars = 0 /\ dev.tried # <<>> /\ ~MasksError(dev.tried)
    /\ dev.peak = 1 /\ dev.open = 0

(* C20: a session never has more than one port handle open, not even       *)
(* within a connect request; handle, parameters and config id are there     *)
(* together or not at all; and an operation that was not cancelled is the   *)
(* active operation of the session and runs on its open handle.            *)
C20_OneHandle ==
    /\ dev.open <= 1 /\ dev.peak <= 1
    /\ dev.open = (IF dev.bars # 0 THEN 1 ELSE 0)
    /\ (dev.bars = 0) = (dev.lcs = <<>>)
    /\ (dev.bars = 0) = (dev.configID = 0)
    /\ \A t \in TaskIds :
          tasks[t].kind # "none" /\ ~tasks[t].ctxDone =>
              tasks[t].gen = dev.opCancel /\ ~tasks[t].closed /\ dev.bars # 0

(* a session connected again while an operation was running on the old     *)
(* handle: that operation is cancelled and its handle closed                *)
C20_Witness ==
    /\ dev.bars # 0 /\ dev.open = 1 /\ dev.opCancel = 0
    /\ \E t \in TaskIds :
          tasks[t].kind = "test" /\ tasks[t].ctxDone /\ tasks[t].closed


(* ---- the streams of the operations ---- *)

Has(f, type) == \E n \in 1..Len(f.ws) : f.ws[n].Type = type

(* C21: no stream carries an 'error' event whose only cause is the         *)
(* cancellation of the operation.                                          *)
C21_CancelIsNotAnError ==
    \A t \in TaskIds : \A n \in 1..Len(tasks[t].ws) :
        ~(tasks[t].ws[n].Type = "error" /\ tasks[t].ws[n].Error = "canceled")

(* the goroutine is past the store and in the flash *)
InFlash(f) ==
    f.events # <<>> \/ f.pc \notin {"sample", "live", "ign", "ignRead", "avg", "avgRead",
                                     "acc", "returned"}

(* C22: in the step task that completes the plan the step is counted (and  *)
(* 'stepDone' broadcast) before the coefficients are computed, they are    *)
(* computed before they are stored, stored before the flash runs, and      *)
(* 'done' comes last; the flash is not started when the computation        *)
(* failed, and 'done' is broadcast only when computation, store and flash  *)
(* all succeeded.                                                          *)
C22_CompletionOrder ==
    LET f == tasks[1] IN
    f.kind = "cal" =>
        /\ f.computed # "none" => Len(f.ws) >= 1 /\ f.ws[1].Type = "stepDone"
        /\ f.computed # "none" => cal.computedOn # <<>>
        /\ f.stored => f.computed = "nil"
        /\ InFlash(f) => f.stored
        /\ f.computed \notin {"none", "nil"} => f.events = <<>> /\ ~Has(f, "done")
        /\ Has(f, "done") =>
              /\ f.computed = "nil" /\ f.stored
              /\ f.pc = "returned" /\ f.result = "nil"
              /\ f.events # <<>> /\ f.events[Len(f.events)] = Ev("done", -1)
              /\ f.ws = <<Msg("stepDone", "nil"), Msg("done", "nil")>>

(* the plan was completed, computed, stored and flashed to the end *)
C22_Witness ==
    LET f == tasks[1] IN
    /\ f.kind = "cal" /\ Has(f, "done")
    /\ f.stored /\ \A b \in Idx(f.bars) : b \in f.payloadReboots


(* the errors of the test goroutine that a failing read or a bad           *)
(* configuration causes                                                    *)
TestFailures == {"read error", "could not read factors", "samples must be > 0"}

StoppedAt(f) == {n \in 1..Len(f.ws) : f.ws[n].Type = "stopped"}

(* C23: a test goroutine whose reads did not fail and whose operation was  *)
(* cancelled, wherever it was, ends with exactly one 'stopped' event, the  *)
(* last of its stream, and so with no snapshot after it.                   *)
C23_CancelledTestStops ==
    \A t \in TaskIds :
        LET f == tasks[t] IN
        f.kind = "test" /\ f.pc = "returned" /\ f.ctxDone /\ f.result \notin TestFailures
            => StoppedAt(f) = {Len(f.ws)}


(* ---- Leo485.GetDeviceFactors ---- *)

FactorsReturned(f) == f.kind = "factors" /\ f.pc = "returned" /\ f.respErr = "nil"

(* a big-endian anchor at i followed by nlcs valid big-endian floats *)
AnchoredBE(f, i) ==
    /\ i + 4 + 4 * f.nlcs <= Len(f.resp)
    /\ Slice(f.resp, i, 4) = anchorBE
    /\ AllValid(Decode(f.resp, i + 4, f.nlcs, FALSE))

AnchorPositions(f) == 0..(Len(f.resp) - 4)

(* C24 as stated: wherever the response holds the big-endian anchor        *)
(* followed by nlcs valid big-endian floats, those floats are the result,  *)
(* whatever precedes or follows them.                                      *)
C24_AnchoredFloatsReturned ==
    LET f == tasks[1] IN
    FactorsReturned(f) =>
        \A i \in AnchorPositions(f) :
            AnchoredBE(f, i) =>
                f.result = "nil" /\ f.vals = Decode(f.resp, i + 4, f.nlcs, FALSE)

(* C24: the floats after the big-endian anchor are the result, in order,   *)
(* when no earlier position holds an anchor of either byte order followed  *)
(* by nlcs valid floats; the bytes after them never matter.                *)
C24_FirstAnchorReturned ==
    LET f == tasks[1] IN
    FactorsReturned(f) =>
        \A i \in AnchorPositions(f) :
            AnchoredBE(f, i) /\ (\A k \in 0..(i - 1) : k \notin AnchorHits(f.resp, f.nlcs)) =>
                f.result = "nil" /\ f.vals = Decode(f.resp, i + 4, f.nlcs, FALSE)

(* an anchored block with bytes before and after it was parsed *)
C24_Witness ==
    LET f == tasks[1] IN
    /\ FactorsReturned(f)
    /\ \E i \in AnchorPositions(f) :
         /\ i > 0 /\ AnchoredBE(f, i) /\ i + 4 + 4 * f.nlcs < Len(f.resp)
         /\ \A k \in 0..(i - 1) : k \notin AnchorHits(f.resp, f.nlcs)
         /\ f.vals = Decode(f.resp, i + 4, f.nlcs, FALSE)

HasAnchor(f) ==
    \E i \in AnchorPositions(f) : Slice(f.resp, i, 4) \in {anchorBE, anchorLE}

Windows(f) == 0..(Len(f.resp) - 4 * f.nlcs)

(* C25: without an anchor, a response with a valid and plausible           *)
(* little-endian window (and no big-endian one) is decoded little-endian   *)
(* from that window; a response with no valid and plausible window, the    *)
(* empty and the too short ones included, gives the NoValidFactors error.  *)
C25_FallbackOrError ==
    LET f == tasks[1] IN
    FactorsReturned(f) /\ ~HasAnchor(f) =>
        /\ /\ \E w \in Windows(f) : Accepted(f.resp, w, f.nlcs, TRUE)
           /\ \A w \in Windows(f) : ~Accepted(f.resp, w, f.nlcs, FALSE)
           => /\ f.result = "nil"
              /\ \E w \in Windows(f) : /\ Accepted(f.resp, w, f.nlcs, TRUE)
                                       /\ f.vals = Decode(f.resp, w, f.nlcs, TRUE)
        /\ WindowHits(f.resp, f.nlcs) = {} => f.result = NoValidFactors


(* ---- the bounds of FlashParameters ---- *)

(* C26: FlashParameters returns whatever the device answers, and at any    *)
(* time it has sent at most 2 update-mode broadcasts, at most              *)
(* HandshakeRounds probes to each bar and at most WriteAttempts writes of  *)
(* each payload to each bar.                                               *)
C26_BoundedAndTerminates ==
    /\ [](LET f == tasks[1] IN
            /\ Len(f.broadcastResps) <= 2
            /\ \A b \in BarIdx :
                  /\ f.probes[b] <= HandshakeRounds
                  /\ f.zeroAttempts[b] <= WriteAttempts
                  /\ f.facAttempts[b] <= WriteAttempts)
    /\ <>(tasks[1].pc = "returned")

(* a device that never answered was given up after every allowed attempt   *)
(* of the handshake                                                        *)
C26_Witness ==
    LET f == tasks[1] IN
    /\ f.pc = "returned" /\ f.bars > 1
    /\ Len(f.broadcastResps) = 2
    /\ \A b \in Idx(f.bars) : f.probes[b] = HandshakeRounds


(* ---- the received count ---- *)

(* the step goroutines between the end of their sampling and calMu *)
Pending == {t \in TaskIds : tasks[t].kind = "cal" /\ tasks[t].pc = "acc"}

(* C27: the received count is the number of step goroutines that finished  *)
(* sampling since the last reset of the accumulator, those still waiting   *)
(* for calMu left out: none is lost, doubled or carried over a reset.      *)
C27_ReceivedIsFinished ==
    cal.calReceived + Cardinality(Pending) = cal.finished


(* ---- the rows of Adv ---- *)

WeightSteps == 1..(cal.calSteps - 1)

(* C30: once every weight step has been accumulated since the last reset,  *)
(* every row of Adv holds the sample of its weight step.                   *)
C30_RowsHoldWeightSteps ==
    (cal.calSteps > 1 /\ \A x \in WeightSteps : cal.reported[x] >= 1) =>
        /\ cal.calAdv # <<>>
        /\ \A x \in WeightSteps : (x - 1) \in cal.calAdv[1]


(* ---- Ad0 ---- *)

MatrixReturned(f) == f.kind = "matrix" /\ f.pc = "returned"

(* C29: the matrix UpdateMatrixZero returns has 3 * (barCount - 1) * NLCs  *)
(* rows of barCount * NLCs columns, and every row is the flattened zero    *)
(* sample.                                                                 *)
C29_EveryRowIsZeroSample ==
    LET f == tasks[1] IN
    /\ f.kind = "matrix" => f.pc # "panicked"
    /\ MatrixReturned(f) =>
         /\ f.result = "nil"
         /\ Len(f.ad0) = 3 * (f.bars - 1) * f.nlcs
         /\ \A r \in 1..Len(f.ad0) :
              /\ Len(f.ad0[r]) = f.bars * f.nlcs
              /\ f.ad0[r] = f.flat

(* the zero sample of two bars of two channels, not all zero, was          *)
(* replicated into six rows                                                *)
C29_Witness ==
    LET f == tasks[1] IN
    /\ MatrixReturned(f) /\ f.bars = 2 /\ f.nlcs = 2
    /\ Len(f.ad0) = 6 /\ f.ad0[6] = f.flat
    /\ \E x \in 1..Len(f.flat) : f.flat[x] # 0


(* ---- ComputeZerosAndFactors ---- *)

ComputeReturned(f) == f.kind = "compute" /\ f.pc = "returned"

(* C31: on success every bar has exactly NLCs records, and record j of bar *)
(* i has the zero of entry i*NLCs+j of row 0 of Ad0 and the factor of      *)
(* entry i*NLCs+j of the solved vector: every entry is used once.          *)
C31_RecordsByIndex ==
    LET f == tasks[1] IN
    ComputeReturned(f) /\ f.result = "nil" =>
        /\ Len(f.recs) = f.bars
        /\ \A i \in Idx(f.bars) :
             /\ Len(f.recs[i + 1]) = f.nlcs
             /\ \A j \in Idx(f.nlcs) :
                  /\ f.recs[i + 1][j + 1].ZERO = f.flat[i * f.nlcs + j + 1]
                  /\ f.recs[i + 1][j + 1].FACTOR = Float32(f.factors[i * f.nlcs + j + 1])
        /\ \A x \in 1..Len(f.factors) :
             Cardinality({<<i, j>> \in Idx(f.bars) \X Idx(f.nlcs) :
                            f.recs[i + 1][j + 1].FACTOR = Float32(f.factors[x])}) = 1

(* two bars of two channels that had one record each were given their     *)
(* four coefficients                                                       *)
C31_Witness ==
    LET f == tasks[1] IN
    /\ ComputeReturned(f) /\ f.result = "nil"
    /\ f.bars = 2 /\ f.nlcs = 2 /\ f.recs0 # f.recs /\ Len(f.recs0[1]) = 1
    /\ \E x \in 1..Len(f.flat) : f.flat[x] # 0

(* C32: when a matrix is missing or the pseudoinverse is unavailable the   *)
(* call returns an error and the record list of every bar is what it was   *)
(* before the call.                                                        *)
C32_ErrorLeavesRecords ==
    LET f == tasks[1] IN
    f.kind = "compute" /\ f.solve # "ok" =>
        /\ f.pc \in {"czf", "returned"}
        /\ f.recs = f.recs0
        /\ f.pc = "returned" => f.result # "nil"

(* the multiplication by the pseudoinverse failed on bars that had records *)
C32_Witness ==
    LET f == tasks[1] IN
    /\ ComputeReturned(f) /\ f.solve = "mul" /\ ~f.pNil
    /\ f.result = "pseudoinverse multiplication failed"
    /\ f.recs # <<>> /\ f.recs[1] # <<>>


(* ---- the indices of FlashParameters ---- *)

(* C36: FlashParameters on a parameter set that passes its precondition    *)
(* never indexes a bar or a channel record out of range.                   *)
C36_FlashIndicesInRange ==
    LET f == tasks[1] IN
    f.kind = "flash" /\ PreconditionError(f.bars, f.p) = "nil" => f.pc # "panicked"


(* ---- the payloads ---- *)

(* the text between the bars of a payload, after its first letter *)
RECURSIVE SplitSlots(_, _, _)
SplitSlots(s, cur, acc) ==
    IF s = <<>> THEN (IF cur = <<>> THEN acc ELSE Append(acc, cur))
    ELSE IF Head(s) = "|" THEN SplitSlots(Tail(s), <<>>, Append(acc, cur))
    ELSE SplitSlots(Tail(s), Append(cur, Head(s)), acc)

Slots(payload) == SplitSlots(Tail(payload), <<>>, <<>>)

(* how many active positions lie below position ii *)
ActiveBelow(lcs, ii) == Cardinality({b \in 0..(ii - 1) : (lcs \div (2 ^ b)) % 2 = 1})

ZeroFillerText == <<"0", "0", "0", "0", "0", "0", "0", "0", "0">>
FactorFillerText == <<"1", ".", "0", "0", "0", "0", "0", "0", "0", "0", "0", "0">>

(* the number a slot of digits spells *)
RECURSIVE SlotValue(_)
SlotValue(s) ==
    IF s = <<>> THEN 0
    ELSE 10 * SlotValue(SubSeq(s, 1, Len(s) - 1))
           + (CHOOSE d \in 0..9 : Digit(d) = s[Len(s)])

PayloadsBuilt == tasks[1].kind = "payload" /\ tasks[1].pc = "returned"

(* C33: for every 4-bit mask the zeros payload is "O", four channel slots  *)
(* and an average slot, the factors payload "X" and four slots; the k-th   *)
(* active position in ascending bit order carries the k-th zero or factor  *)
(* of the bar, every inactive position the filler.                         *)
C33_PayloadSlots ==
    LET f == tasks[1]
        zs == Slots(f.sb)
        fs == Slots(f.sb2) IN
    PayloadsBuilt =>
      /\ Head(f.sb) = "O" /\ f.sb[Len(f.sb)] = "|" /\ Len(zs) = 5
      /\ Head(f.sb2) = "X" /\ f.sb2[Len(f.sb2)] = "|" /\ Len(fs) = 4
      /\ \A ii \in 0..3 :
           IF (f.lcs \div (2 ^ ii)) % 2 = 1
             THEN /\ Len(zs[ii + 1]) = 9
                  /\ SlotValue(zs[ii + 1]) = f.lc[ActiveBelow(f.lcs, ii) + 1].ZERO
                  /\ fs[ii + 1] = SubSeq(SprintfF10(f.lc[ActiveBelow(f.lcs, ii) + 1].FACTOR), 1,
                                         Len(SprintfF10(f.lc[ActiveBelow(f.lcs, ii) + 1].FACTOR)) - 1)
             ELSE zs[ii + 1] = ZeroFillerText /\ fs[ii + 1] = FactorFillerText

(* a mask with an inactive position below an active one and between two    *)
(* active ones, built from records that all differ                         *)
C33_Witness ==
    PayloadsBuilt /\ tasks[1].lcs = 13 /\ Len(tasks[1].lc) = 3


(* ---- the mask of a session and the mask of a payload ---- *)

(* C37: for every mask accepted at connect the payload builder writes as   *)
(* many active slots as the session has channels (NLCs).                   *)
C37_ActiveSlotsAreNLCs ==
    dev.bars # 0 => \A b \in 1..dev.bars : ActiveSlots(dev.lcs[b]) = dev.nlcs


(* ---- a step request with an index outside the plan ---- *)

(* the request that task slot t takes in this step has a step index that   *)
(* the plan of the session does not have                                   *)
RejectedRequest(t) ==
    /\ tasks[t].kind = "none"
    /\ tasks'[t].kind = "cal" /\ tasks'[t].pc = "handler"
    /\ tasks'[t].step >= PlanLen(dev.bars, dev.nlcs)

(* C34: a start-step request rejected for its step index leaves the active *)
(* operation as it was: nothing is cancelled, opCancel and opKind keep     *)
(* their values, the accumulator is unchanged.                             *)
C34_RejectedStepLeavesOperation ==
    [][\A t \in TaskIds :
         RejectedRequest(t) =>
           /\ dev'.opCancel = dev.opCancel /\ dev'.opKind = dev.opKind
           /\ \A u \in TaskIds \ {t} : tasks'[u].ctxDone = tasks[u].ctxDone
           /\ cal' = cal]_vars


(* ---- commands after the handle of a session was closed ---- *)

(* where a test goroutine stands right before a command on its handle      *)
(* (ReadFactors, GetADs)                                                   *)
TestCommandPcs == {"ensureRead", "warmRead", "sampRead", "fallback", "snap"}

(* C35: once disconnect or reconnect has closed the handle of a session,   *)
(* no task started on that session issues a further command on it.         *)
C35_NoCommandOnClosedHandle ==
    [][\A t \in TaskIds :
         tasks[t].kind = "test" /\ tasks[t].closed /\ tasks[t].pc \in TestCommandPcs
           => tasks'[t] = tasks[t]]_vars


(* ---- the terminal UI ---- *)

(* the run id a completion message is compared with *)
CurrentRunID(m, type) ==
    CASE type \in {"calStepDone", "calFlashDone"} -> m.calRunID
      [] type \in {"testZerosDone", "testSnap"} -> m.testRunID
      [] type = "flashDone" -> m.flashRunID

Completions == {"calStepDone", "calFlashDone", "testZerosDone", "testSnap", "flashDone"}

(* the completion messages of superseded runs, for model m *)
StaleMsgs(m) ==
    {msg \in [type : Completions, runID : 0..(MaxRuns + 2), idx : {0, 1}] :
       msg.runID # CurrentRunID(m, msg.type)}

(* C38: a completion message whose run id is not the current one of its    *)
(* mode changes nothing in the model and schedules no command; leaving a   *)
(* mode with b and re-zeroing with z advance the run id of the mode.       *)
C38_StaleCompletionIgnored ==
    LET m == ui.m
        n == ui.nctx + 1 IN
    /\ \A msg \in StaleMsgs(m) : UpdateMsg(m, msg) = Ret(m, <<>>, {})
    /\ m.scr = "calibration" => UpdateKeyMsg(m, "b", n).m.calRunID > m.calRunID
    /\ m.scr = "test" => UpdateKeyMsg(m, "b", n).m.testRunID > m.testRunID
    /\ m.scr = "flash" => UpdateKeyMsg(m, "b", n).m.flashRunID > m.flashRunID
    /\ m.scr = "test" /\ m.testStatus = "running" /\ m.sess
         => UpdateKeyMsg(m, "z", n).m.testRunID > m.testRunID

(* a step of a run that was left is still in flight, another run of the    *)
(* same mode has begun, and the step can still report success              *)
C38_Witness ==
    /\ ui.m.scr = "calibration"
    /\ \E c \in BagToSet(ui.inflight) :
         /\ c.cmd = "runCalibrationStep" /\ c.runID # ui.m.calRunID
         /\ TeaMsg("calStepDone", c.runID, c.idx) \in CmdResults(c, ui.done)

(* C39: whenever the calibration screen is shown with a plan, the step     *)
(* index lies inside the plan, also while compute-and-flash runs.          *)
C39_StepIndexInPlan ==
    ui.m.scr = "calibration" /\ ui.m.calSteps > 0
      => 0 <= ui.m.calStepIdx /\ ui.m.calStepIdx < ui.m.calSteps


(* ---- DrainKeys ---- *)

(* C40: DrainKeys terminates whatever the state of the key channel: empty, *)
(* holding keys, never fed, or closed by the reader.                       *)
C40_DrainKeysTerminates == (ui.drain = "select") ~> (ui.drain = "returned")

====
